---------------------------- MODULE Spec2Model ----------------------------
(***************************************************************************)
(* A model of the o5m/o5c stream decoder of libosmium                      *)
(* (osmium/io/detail/o5m_input_format.hpp) and of the item buffer it       *)
(* writes into (osmium/memory/buffer.hpp).                                 *)
(*                                                                         *)
(* Bytes are the naturals 0..255, byte strings are sequences of bytes.     *)
(* Offsets into a byte string are 0-based as in the source; the TLA+       *)
(* sequence index of offset o is o + 1.                                    *)
(***************************************************************************)
EXTENDS Integers, Sequences, FiniteSets, TLC

(***************************************************************************)
(* Bounds of the model.                                                    *)
(***************************************************************************)

\* ReferenceTable::number_of_entries is 15000 in the source
\* (o5m_input_format.hpp:103).  The ring is scaled down so that the cursor
\* wraps within a few insertions; every formula is stated in terms of this
\* name, never of its value.
number_of_entries == 3

(***************************************************************************)
(* Program constants.                                                      *)
(***************************************************************************)

\* ReferenceTable::max_length = 250U + 2U
max_length == 252

\* protozero::max_varint_length (o5m_input_format.hpp:544)
max_varint_length == 10

(***************************************************************************)
(* Byte-string helpers.                                                    *)
(***************************************************************************)

Min(a, b) == IF a < b THEN a ELSE b

Max(a, b) == IF a < b THEN b ELSE a

\* n copies of byte b
Fill(n, b) == [i \in 1..n |-> b]

\* The byte at 0-based offset o of s; bytes beyond the stored prefix of a
\* zero-initialised area read as 0.
ByteAt(s, o) == IF o + 1 <= Len(s) THEN s[o + 1] ELSE 0

\* std::copy_n(src, Len(src), dst): the first Len(src) bytes of dst are
\* overwritten, the bytes after them are kept.
CopyOver(src, dst) ==
    IF Len(src) >= Len(dst) THEN src
    ELSE src \o SubSeq(dst, Len(src) + 1, Len(dst))

(***************************************************************************)
(* class ReferenceTable.                                                   *)
(*   alloc : m_table is not empty (it is resized on the first add())       *)
(*   cur   : current_entry                                                 *)
(*   tab   : slot -> the bytes of the slot; a slot is entry_size bytes of   *)
(*           which the model stores the prefix that was ever written, the  *)
(*           rest being the zero bytes of std::string::resize.             *)
(***************************************************************************)

VARIABLES
    m_reference_table,  \* the table of the parser (or the one under test)
    inserted,           \* history: the strings add() has stored since the last clear()
    rt_last             \* the last operation on the table and its result

rtvars == <<m_reference_table, inserted, rt_last>>

Slots == 0..(number_of_entries - 1)

RT_new == [alloc |-> FALSE, cur |-> 0, tab |-> [e \in Slots |-> <<>>]]

\* ReferenceTable::clear()
RT_clear(rt) == [rt EXCEPT !.cur = 0]

\* A variant of add() with a fault planted: the size is not looked at
RT_add_any_size(rt, str) ==
    [rt EXCEPT !.alloc = TRUE,
               !.tab[rt.cur] = CopyOver(str, rt.tab[rt.cur]),
               !.cur = IF rt.cur + 1 = number_of_entries THEN 0 ELSE rt.cur + 1]

\* ReferenceTable::add(string, size): str is the size bytes at string
RT_add(rt, str) ==
    LET t1 == [rt EXCEPT !.alloc = TRUE]
    IN  IF Len(str) <= max_length
        THEN [t1 EXCEPT !.tab[rt.cur] = CopyOver(str, rt.tab[rt.cur]),
                        !.cur = IF rt.cur + 1 = number_of_entries THEN 0 ELSE rt.cur + 1]
        ELSE t1

\* Two variants of get() with a fault planted, which the properties of
\* the table must tell apart from get(): a slot one off, and no upper limit
\* on the index.
RT_get_off_by_one(rt, index) ==
    IF ~rt.alloc \/ index = 0 \/ index > number_of_entries
    THEN [err |-> TRUE, slot |-> 0]
    ELSE [err |-> FALSE, slot |-> (rt.cur + number_of_entries - index + 1) % number_of_entries]

RT_get_no_upper_limit(rt, index) ==
    IF ~rt.alloc \/ index = 0
    THEN [err |-> TRUE, slot |-> 0]
    ELSE [err |-> FALSE,
          slot |-> (rt.cur + number_of_entries * index - index) % number_of_entries]

\* ReferenceTable::get(index): the error, or the slot the returned pointer
\* points at.  The operands are unsigned 64-bit; index <= number_of_entries
\* on the second branch, so the subtraction does not wrap.
RT_get(rt, index) ==
    IF ~rt.alloc \/ index = 0 \/ index > number_of_entries
    THEN [err |-> TRUE, slot |-> 0]
    ELSE [err |-> FALSE, slot |-> (rt.cur + number_of_entries - index) % number_of_entries]

\* The bytes a caller of get() finds at the returned pointer.
RT_bytes(rt, index) == rt.tab[RT_get(rt, index).slot]

(***************************************************************************)
(* Varint / zig-zag codec (protozero) and osmium::DeltaDecode.             *)
(***************************************************************************)

\* Stands for every varint value of 2^31 and above, five bytes with more
\* than three bits in the fifth or more bytes: the inputs of the model
\* never need such a value exactly.
HugeValue == 2^30

Pow128(i) ==
    CASE i = 0 -> 1 [] i = 1 -> 128 [] i = 2 -> 16384 [] i = 3 -> 2097152
      [] OTHER -> 268435456

\* protozero::decode_varint(&data, end) reading s from offset pos up to the
\* offset lim (lim < 0: the end pointer is unrelated to s and never met).
\* The result: err ("" when none), the value and the offset after it.
RECURSIVE VarintLoop(_, _, _, _, _)
VarintLoop(s, pos, lim, i, acc) ==
    IF i = 10 THEN [err |-> "varint too long", val |-> 0, pos |-> pos]
    ELSE IF pos = lim THEN [err |-> "end of buffer", val |-> 0, pos |-> pos]
    ELSE LET b == ByteAt(s, pos)
             v == IF i > 4 \/ (i = 4 /\ b % 128 > 7) THEN HugeValue
                  ELSE acc + (b % 128) * Pow128(i)
         IN  IF b < 128
             THEN [err |-> "", val |-> v, pos |-> pos + 1]
             ELSE VarintLoop(s, pos + 1, lim, i + 1, v)

decode_varint(s, pos, lim) == VarintLoop(s, pos, lim, 0, 0)

\* protozero::decode_zigzag64
decode_zigzag64(n) == IF n % 2 = 0 THEN n \div 2 ELSE -(n \div 2) - 1

\* O5mParser::zvarint
zvarint(s, pos, lim) ==
    LET r == decode_varint(s, pos, lim)
    IN  [r EXCEPT !.val = decode_zigzag64(r.val)]

\* osmium::DeltaDecode<T>::update: the new running value
Delta_update(value, delta) == value + delta

\* The same for a running value that leaves the range of 32 bits, which
\* lon and lat can: the int64 value is high * 2^32 + low, low a signed
\* number of 32 bits.  Delta_carry is what the update adds to high,
\* Delta_low the new low.
Delta_carry(low, delta) ==
    IF delta > 0 /\ low > 2147483647 - delta THEN 1
    ELSE IF delta < 0 /\ low < (-2147483647 - 1) - delta THEN -1
    ELSE 0

Delta_low(low, delta) ==
    CASE Delta_carry(low, delta) = 1 ->
            (low - 2147483647 - 1) + (delta - 2147483647 - 1)
      [] Delta_carry(low, delta) = -1 ->
            (low + 2147483647 + 1) + (delta + 2147483647 + 1)
      [] OTHER -> low + delta

(***************************************************************************)
(* The input side of O5mParser.                                            *)
(*   m_input    : the std::string of bytes received and not yet erased     *)
(*   mem        : the storage block m_data and m_end point into            *)
(*   m_data,                                                                *)
(*   m_end      : the two cursors, as offsets into mem                     *)
(*   inq        : the chunks waiting in the input queue; the end-of-data   *)
(*                marker follows the last one                              *)
(*   done       : input_done()                                             *)
(*   moved      : m_input was reallocated after the cursors were set, so   *)
(*                that they point into a freed block                       *)
(* erase() and append() work in place (memmove, then a NUL after the last  *)
(* byte); the cursors are only set again on the last lines of              *)
(* ensure_bytes_available, so after an early "return false" they still     *)
(* hold offsets of the block as it was before the erase.                   *)
(***************************************************************************)

\* What a build may do where the source leaves it open: whether an append()
\* reallocates m_input, what the freed block then holds (fill < 0: its old
\* bytes), and what the difference of a dangling cursor and m_input.data()
\* comes to ("same": as if the block had not moved, "none": 0, "all": at
\* least the size of m_input).
UBDefault == [realloc |-> FALSE, fill |-> -1, diff |-> "same"]

\* The bytes a refill can still get: those of m_input and of the queue
RECURSIVE QueuedBytes(_)
QueuedBytes(q) == IF q = <<>> THEN 0 ELSE Len(Head(q)) + QueuedBytes(Tail(q))

\* The outcomes to tell apart in rd.  A reallocation shows only when the
\* cursors are used after it, that is when a refill ends in "return false"
\* and the run goes on: with fewer than max_varint_length bytes to come.
UBOutcomes(rd) ==
    IF rd.moved
    THEN {[UBDefault EXCEPT !.diff = d] : d \in {"same", "none", "all"}}
    ELSE IF rd.inq # <<>> /\ ~rd.done
            /\ Len(rd.m_input) + QueuedBytes(rd.inq) < max_varint_length
    THEN {UBDefault} \cup {[realloc |-> TRUE, fill |-> f, diff |-> "same"] : f \in {-1, 0, 255}}
    ELSE {UBDefault}

RD_new(chunks) ==
    [m_input |-> <<>>, mem |-> <<0>>, m_data |-> 0, m_end |-> 0,
     inq |-> chunks, done |-> FALSE, moved |-> FALSE]

\* The while loop of ensure_bytes_available (lines 180-186).  gone: m_input
\* has left the block the cursors point into.
RECURSIVE FillLoop(_, _, _)
FillLoop(f, need_bytes, uv) ==
    IF Len(f.m_input) >= need_bytes THEN [f EXCEPT !.ok = TRUE]
    ELSE IF f.done \/ f.inq = <<>> THEN [f EXCEPT !.ok = FALSE, !.done = TRUE]
    ELSE LET in2 == f.m_input \o Head(f.inq)
             mem2 == IF f.gone THEN f.mem
                     ELSE IF uv.realloc
                          THEN (IF uv.fill < 0 THEN f.mem ELSE Fill(Len(f.mem), uv.fill))
                          ELSE CopyOver(in2 \o <<0>>, f.mem)
         IN  FillLoop([f EXCEPT !.m_input = in2, !.mem = mem2, !.inq = Tail(f.inq),
                                !.gone = f.gone \/ uv.realloc],
                      need_bytes, uv)

\* m_input.erase(0, m_data - m_input.data()) (line 178), as the state the
\* while loop starts in
Erased(rd, uv) ==
    LET diff == IF ~rd.moved \/ uv.diff = "same" THEN rd.m_data
                ELSE IF uv.diff = "none" THEN 0 ELSE Len(rd.m_input)
        k    == Min(diff, Len(rd.m_input))
        in1  == SubSeq(rd.m_input, k + 1, Len(rd.m_input))
    IN  [m_input |-> in1,
         mem |-> IF rd.moved \/ diff = 0 THEN rd.mem ELSE CopyOver(in1 \o <<0>>, rd.mem),
         inq |-> rd.inq, done |-> rd.done, gone |-> rd.moved, ok |-> FALSE]

\* What ensure_bytes_available returns after the while loop ended in f:
\* only when the loop got its bytes are the cursors set again (lines 188,
\* 189); on "return false" (line 183) they stay what they were
Refilled(rd, f) ==
    IF f.ok
    THEN [ok |-> TRUE,
          rd |-> [m_input |-> f.m_input, mem |-> f.m_input \o <<0>>,
                  m_data |-> 0, m_end |-> Len(f.m_input),
                  inq |-> f.inq, done |-> f.done, moved |-> FALSE]]
    ELSE [ok |-> FALSE,
          rd |-> [rd EXCEPT !.m_input = f.m_input, !.mem = f.mem,
                            !.inq = f.inq, !.done = f.done, !.moved = f.gone]]

\* O5mParser::ensure_bytes_available(need_bytes): [ok, rd]
ensure_bytes_available(rd, need_bytes, uv) ==
    IF rd.m_end - rd.m_data >= need_bytes THEN [ok |-> TRUE, rd |-> rd]
    ELSE IF rd.done /\ Len(rd.m_input) < need_bytes THEN [ok |-> FALSE, rd |-> rd]
    ELSE Refilled(rd, FillLoop(Erased(rd, uv), need_bytes, uv))

(***************************************************************************)
(* class osmium::memory::Buffer.                                           *)
(*   capacity, written, committed : m_capacity, m_written, m_committed     *)
(*   chunks    : the bytes [0, written) of the memory, as the sequence of  *)
(*               the areas reserve_space handed out: [sz, it], sz bytes    *)
(*               holding it                                                *)
(*   ncommit   : how many of the chunks lie below committed                *)
(*   memory    : m_memory is set (internal memory management)              *)
(*   auto_grow : "no", "yes" or "internal"                                 *)
(*   next      : the chain m_next_buffer, m_next_buffer->m_next_buffer,    *)
(*               ... as a sequence: the head is the buffer split off last, *)
(*               the last element the most deeply nested one               *)
(***************************************************************************)

\* osmium::memory::align_bytes
align_bytes == 8

\* Buffer::calculate_capacity::min_capacity
min_capacity == 64

\* osmium::memory::padded_length
padded_length(length) == ((length + align_bytes - 1) \div align_bytes) * align_bytes

\* Buffer::calculate_capacity
calculate_capacity(capacity) ==
    IF capacity < min_capacity THEN min_capacity ELSE padded_length(capacity)

RECURSIVE SumSz(_)
SumSz(chunks) == IF chunks = <<>> THEN 0 ELSE Head(chunks).sz + SumSz(Tail(chunks))

\* Buffer(std::size_t capacity, auto_grow)
Buffer_new(capacity, auto_grow) ==
    [capacity |-> calculate_capacity(capacity), written |-> 0, committed |-> 0,
     chunks |-> <<>>, ncommit |-> 0, memory |-> TRUE, auto_grow |-> auto_grow,
     next |-> <<>>]

\* A variant of is_aligned with a fault planted: any state passes
is_aligned_any(b) == b.written >= b.committed

\* Buffer::is_aligned
is_aligned(b) == b.written % align_bytes = 0 /\ b.committed % align_bytes = 0

\* A variant of grow_internal with a fault planted: the committed bytes
\* are not kept
grow_internal_losing(b) ==
    IF ~b.memory
    THEN [err |-> "logic_error", b |-> b]
    ELSE [err |-> "",
          b |-> [b EXCEPT !.written = b.written - b.committed,
                          !.chunks = SubSeq(b.chunks, b.ncommit + 1, Len(b.chunks)),
                          !.committed = 0,
                          !.ncommit = 0]]

\* A variant of grow_internal with a fault planted: the buffer split off
\* goes behind the chain
grow_internal_behind(b) ==
    [err |-> "",
     b |-> [b EXCEPT !.written = b.written - b.committed,
                     !.chunks = SubSeq(b.chunks, b.ncommit + 1, Len(b.chunks)),
                     !.committed = 0,
                     !.ncommit = 0,
                     !.next = b.next \o <<[capacity |-> b.capacity, written |-> b.committed,
                                          committed |-> b.committed,
                                          chunks |-> SubSeq(b.chunks, 1, b.ncommit),
                                          ncommit |-> b.ncommit, memory |-> TRUE,
                                          auto_grow |-> "no", next |-> <<>>]>>]]

\* Buffer::grow_internal: [err, b].  The committed bytes go to a new
\* buffer that takes over the old memory and the old chain; the bytes
\* written after them are copied to the start of fresh memory.
grow_internal(b) ==
    IF ~b.memory
    THEN [err |-> "logic_error", b |-> b]
    ELSE IF b.capacity % align_bytes # 0 \/ b.committed % align_bytes # 0
            \/ b.committed > b.capacity
    THEN [err |-> "invalid_argument", b |-> b]
    ELSE LET old == [capacity |-> b.capacity, written |-> b.committed,
                     committed |-> b.committed,
                     chunks |-> SubSeq(b.chunks, 1, b.ncommit),
                     ncommit |-> b.ncommit, memory |-> TRUE, auto_grow |-> "no",
                     next |-> <<>>]
         IN  [err |-> "",
              b |-> [b EXCEPT !.written = b.written - b.committed,
                              !.chunks = SubSeq(b.chunks, b.ncommit + 1, Len(b.chunks)),
                              !.committed = 0,
                              !.ncommit = 0,
                              !.next = <<old>> \o b.next]]

\* A variant of grow with a fault planted: memory of the caller grows too
Buffer_grow_any(b, size) ==
    [err |-> "", b |-> [b EXCEPT !.capacity = calculate_capacity(size)]]

\* Buffer::grow(size): [err, b]
Buffer_grow(b, size) ==
    IF ~b.memory THEN [err |-> "logic_error", b |-> b]
    ELSE LET sz == calculate_capacity(size)
         IN  [err |-> "", b |-> IF b.capacity < sz THEN [b EXCEPT !.capacity = sz] ELSE b]

\* A variant of DoubleUntil with a fault planted: doubled once
DoubleUntil_once(new_capacity, needed) == new_capacity

\* "double buffer size until there is enough space" (lines 567-570)
RECURSIVE DoubleUntil(_, _)
DoubleUntil(new_capacity, needed) ==
    IF needed > new_capacity THEN DoubleUntil(new_capacity * 2, needed) ELSE new_capacity

\* The last lines of reserve_space (574-576), the reserved area then
\* holding it
Reserved(g, size, it) ==
    IF g.err # "" THEN g
    ELSE [err |-> "",
          b |-> [g.b EXCEPT !.chunks = Append(@, [sz |-> size, it |-> it]),
                            !.written = @ + size]]

\* A variant of GrowIfFull with a fault planted: the capacity stays
GrowIfFull_never(g, size) == g

\* "if there's still not enough space" after grow_internal (lines 566-572)
GrowIfFull(g, size) ==
    IF g.err = "" /\ g.b.written + size > g.b.capacity
    THEN Buffer_grow(g.b, DoubleUntil(g.b.capacity * 2, g.b.written + size))
    ELSE g

\* A variant of reserve_space with a fault planted: the capacity is not
\* looked at
reserve_space_unchecked(b, size, it) == Reserved([err |-> "", b |-> b], size, it)

\* Buffer::reserve_space(size): [err, b].  No full-callback is set.
reserve_space(b, size, it) ==
    IF b.written + size <= b.capacity THEN Reserved([err |-> "", b |-> b], size, it)
    ELSE IF ~b.memory \/ b.auto_grow = "no" THEN [err |-> "buffer_is_full", b |-> b]
    ELSE IF b.auto_grow = "internal" /\ b.committed # 0
    THEN Reserved(GrowIfFull(grow_internal(b), size), size, it)
    ELSE Reserved(GrowIfFull([err |-> "", b |-> b], size), size, it)

\* Buffer::commit
Buffer_commit(b) == [b EXCEPT !.committed = b.written, !.ncommit = Len(b.chunks)]

\* A variant of rollback with a fault planted: the committed bytes are
\* dropped as well
Buffer_rollback_all(b) ==
    [b EXCEPT !.written = 0, !.committed = 0, !.chunks = <<>>, !.ncommit = 0]

\* Buffer::rollback
Buffer_rollback(b) ==
    [b EXCEPT !.written = b.committed, !.chunks = SubSeq(b.chunks, 1, b.ncommit)]

\* Buffer::clear
Buffer_clear(b) ==
    [b EXCEPT !.written = 0, !.committed = 0, !.chunks = <<>>, !.ncommit = 0]

\* Buffer::has_nested_buffers
has_nested_buffers(b) == b.next # <<>>

\* A variant of get_last_nested with a fault planted: the buffer split
\* off last is moved out
get_first_nested(b) == [got |-> Head(b.next), b |-> [b EXCEPT !.next = Tail(b.next)]]

\* Buffer::get_last_nested: the most deeply nested buffer is moved out
get_last_nested(b) ==
    [got |-> b.next[Len(b.next)],
     b   |-> [b EXCEPT !.next = SubSeq(b.next, 1, Len(b.next) - 1)]]

\* Iteration, begin() .. end(): the items in [0, committed)
CommittedChunks(b) == SubSeq(b.chunks, 1, b.ncommit)

\* Buffer(unsigned char* data, capacity, committed) for committed = 0:
\* memory supplied by the caller
Buffer_external(capacity) ==
    [capacity |-> capacity, written |-> 0, committed |-> 0,
     chunks |-> <<>>, ncommit |-> 0, memory |-> FALSE, auto_grow |-> "no",
     next |-> <<>>]

\* How many of the areas from the i-th on make up one item: the area with
\* the item itself and the areas added to it (padding, sub-items)
RECURSIVE ItemAreas(_, _)
ItemAreas(chunks, i) ==
    IF i + 1 > Len(chunks) \/ chunks[i + 1].it.part = "object" THEN 1
    ELSE 1 + ItemAreas(chunks, i + 1)

\* ItemIterator from the i-th area at offset at up to the offset limit:
\* each item with its offset, its padded size, what it holds and its areas
RECURSIVE ItemsFrom(_, _, _, _)
ItemsFrom(chunks, i, at, limit) ==
    IF i > Len(chunks) \/ at >= limit THEN <<>>
    ELSE LET areas == SubSeq(chunks, i, i + ItemAreas(chunks, i) - 1)
             size  == SumSz(areas)
         IN  <<[at |-> at, size |-> size, obj |-> chunks[i].it.obj,
                areas |-> areas]>>
                \o ItemsFrom(chunks, i + Len(areas), at + size, limit)

\* begin() .. end(): the items in the bytes [0, committed)
Iterate(b) == ItemsFrom(b.chunks, 1, 0, b.committed)

\* The for loop of purge_removed over the items from the i-th on, it_write
\* at the offset write: [chunks, calls, write], the areas moved to the
\* front so far, the calls of moving_in_buffer and the end of the last item
RECURSIVE PurgeLoop_calling_all(_, _, _)
PurgeLoop_calling_all(items, i, p) ==
    IF i > Len(items) THEN p
    ELSE IF items[i].obj.removed THEN PurgeLoop_calling_all(items, i + 1, p)
    ELSE PurgeLoop_calling_all(items, i + 1,
                   [chunks |-> p.chunks \o items[i].areas,
                    calls |-> Append(p.calls, <<items[i].at, p.write>>),
                    write |-> p.write + items[i].size])

RECURSIVE PurgeLoop(_, _, _)
PurgeLoop(items, i, p) ==
    IF i > Len(items) THEN p
    ELSE IF items[i].obj.removed THEN PurgeLoop(items, i + 1, p)
    ELSE PurgeLoop(items, i + 1,
                   [chunks |-> p.chunks \o items[i].areas,
                    calls |-> IF items[i].at # p.write
                              THEN Append(p.calls, <<items[i].at, p.write>>)
                              ELSE p.calls,
                    write |-> p.write + items[i].size])

\* The last lines of purge_removed: m_written and m_committed are the
\* offset of it_write
Purged(b, p) ==
    [calls |-> p.calls,
     b |-> [b EXCEPT !.chunks = p.chunks, !.ncommit = Len(p.chunks),
                     !.written = p.write, !.committed = p.write]]

\* A variant of purge_removed with a fault planted: the removed items stay
purge_removed_keeping(b) ==
    Purged(b, [chunks |-> CommittedChunks(b), calls |-> <<>>, write |-> b.committed])

\* Buffer::purge_removed(callback): [calls, b]
purge_removed(b) ==
    IF b.committed = 0 THEN [calls |-> <<>>, b |-> b]
    ELSE Purged(b, PurgeLoop(Iterate(b), 1, [chunks |-> <<>>, calls |-> <<>>, write |-> 0]))

(***************************************************************************)
(* The payload decoders of O5mParser.  They work on a decode state         *)
(*   p    : the payload, the bytes [data, end) handed to decode_node, ...  *)
(*   pos  : the offset of the cursor, the value of dataptr                *)
(*   rt   : m_reference_table        ins : the history variable inserted   *)
(*   dl   : the delta decoders       buf : buffer()                        *)
(*   e    : the object under construction in the builder                   *)
(*   err  : "" or the message of the exception that ended the decoding     *)
(*   src, at, lim : what decode_string returned last                       *)
(*   type, role   : what decode_role returned last                         *)
(* An exception leaves the state as the statements before it made it.      *)
(***************************************************************************)

\* osmium::Location::undefined_coordinate
undefined_coordinate == 2147483647

\* What the builders reserve in the buffer: an object (with its user
\* name), the header of a tag, node-ref or member list, one list element.
object_size == 40

list_size == 8

element_size == 16

Deltas_new ==
    [id |-> 0, timestamp |-> 0, changeset |-> 0, lon |-> 0, lat |-> 0,
     high |-> [lon |-> 0, lat |-> 0],
     way_node_id |-> 0, member_ids |-> <<0, 0, 0>>]

Object_new(kind) ==
    [kind |-> kind, id |-> 0, version |-> 0, timestamp |-> 0, changeset |-> 0,
     uid |-> 0, user |-> <<>>, visible |-> TRUE,
     loc |-> <<undefined_coordinate, undefined_coordinate>>,
     tags |-> <<>>, refs |-> <<>>, members |-> <<>>]

Throw(d, what) == [d EXCEPT !.err = what]

\* data == end for a cursor at offset pos and an end at offset lim; lim < 0
\* when the cursor points into the reference table, which end never does
AtEnd(pos, lim) == lim >= 0 /\ pos >= lim

\* The offset of the first NUL byte of s at or after offset at
ScanNul(s, at) ==
    CHOOSE q \in at..Max(at, Len(s)) :
        ByteAt(s, q) = 0 /\ \A j \in at..(q - 1) : ByteAt(s, j) # 0

\* The bytes of s at the offsets from .. to - 1
Bytes(s, from, to) == [i \in 1..(to - from) |-> ByteAt(s, from + i - 1)]

\* m_reference_table.add(start, size)
AddString(d, str) ==
    [d EXCEPT !.rt = RT_add(d.rt, str),
              !.ins = IF Len(str) <= max_length THEN Append(d.ins, str) ELSE d.ins]

\* A builder reserving size bytes for a part of the object
Reserving(d, r) == [d EXCEPT !.buf = r.b, !.err = r.err]

Reserve(d, size, part) ==
    IF d.err # "" THEN d
    ELSE Reserving(d, reserve_space(d.buf, size, [part |-> part, obj |-> <<>>]))

\* The string decode_string returns: the pointer is offset at of src, and
\* lim is the offset of end in src (AtEnd)
Returning(d, src, at, lim) == [d EXCEPT !.src = src, !.at = at, !.lim = lim]

\* "get from reference table" (lines 274, 275): v the index read, g what
\* get() made of it
StringFromTable(d, v, g) ==
    IF v.err # "" THEN Throw(d, v.err)
    ELSE IF g.err
    THEN Throw([d EXCEPT !.pos = v.pos], "reference to non-existing string in table")
    ELSE Returning([d EXCEPT !.pos = v.pos], d.rt.tab[g.slot], 0, -1)

StringIndex(d, v) == StringFromTable(d, v, RT_get(d.rt, v.val))

\* O5mParser::decode_string
decode_string(d) ==
    IF ByteAt(d.p, d.pos) = 0
    THEN IF d.pos + 1 = Len(d.p)
         THEN Throw([d EXCEPT !.pos = d.pos + 1], "string format error")
         ELSE Returning([d EXCEPT !.pos = d.pos + 1], d.p, d.pos + 1, Len(d.p))
    ELSE StringIndex(d, decode_varint(d.p, d.pos, Len(d.p)))

\* A variant of UpdatePointer with a fault planted: a string got from the
\* table is added to it again
UpdatePointer_always(r, update_pointer, data) ==
    IF update_pointer
    THEN [AddString(r, Bytes(r.src, r.at, data)) EXCEPT !.pos = data]
    ELSE AddString(r, Bytes(r.src, r.at, data))

\* "if (update_pointer)" at the end of decode_user, decode_tags and
\* decode_role: the bytes from start to before data are added to the table
\* and the cursor is set to data
UpdatePointer(r, update_pointer, data) ==
    IF update_pointer
    THEN [AddString(r, Bytes(r.src, r.at, data)) EXCEPT !.pos = data]
    ELSE r

\* decode_user from the do-while loop on (lines 302-313), q the offset of
\* the NUL byte ending the user name; uid and name go into the object as
\* decode_info and its callers put them there
UserName(r, update_pointer, v, q) ==
    IF AtEnd(q, r.lim) THEN Throw(r, "no null byte in user name")
    ELSE [UpdatePointer(r, update_pointer, q + 1)
             EXCEPT !.e.uid = v.val, !.e.user = Bytes(r.src, v.pos + 1, q)]

\* decode_user after the uid was read as v (lines 286-300).  A varint of
\* the model is below 2^31, so that "uid out of range" is never thrown.
UserId_no_sentinel(r, update_pointer, v) ==
    IF v.err # "" THEN Throw(r, v.err)
    ELSE IF AtEnd(v.pos, r.lim) THEN Throw(r, "missing user name")
    ELSE IF v.val = 0 /\ update_pointer THEN [r EXCEPT !.pos = v.pos + 1]
    ELSE UserName(r, update_pointer, v, ScanNul(r.src, v.pos + 1))

UserId(r, update_pointer, v) ==
    IF v.err # "" THEN Throw(r, v.err)
    ELSE IF AtEnd(v.pos, r.lim) THEN Throw(r, "missing user name")
    ELSE IF v.val = 0 /\ update_pointer
    THEN [AddString(r, <<0, 0>>) EXCEPT !.pos = v.pos + 1]
    ELSE UserName(r, update_pointer, v, ScanNul(r.src, v.pos + 1))

UserString(r, update_pointer) ==
    IF r.err # "" THEN r
    ELSE UserId(r, update_pointer, decode_varint(r.src, r.at, r.lim))

\* O5mParser::decode_user
decode_user(d) == UserString(decode_string(d), ByteAt(d.p, d.pos) = 0)

\* builder.add_tag(start, value)
AddTag(d, key, value) ==
    IF d.err # "" THEN d ELSE [d EXCEPT !.e.tags = Append(@, <<key, value>>)]

\* The body of the loop of decode_tags from the second inner loop on
\* (lines 335-346), q1 and q2 the offsets of the NUL bytes ending key and
\* value
TagValue(r, update_pointer, q1, q2) ==
    IF AtEnd(q2, r.lim) THEN Throw(r, "no null byte in tag value")
    ELSE AddTag(Reserve(UpdatePointer(r, update_pointer, q2 + 1), element_size, "tag"),
                Bytes(r.src, r.at, q1), Bytes(r.src, q1 + 1, q2))

\* ... from the first inner loop on (lines 324-334)
TagKey(r, update_pointer, q1) ==
    IF AtEnd(q1, r.lim) THEN Throw(r, "no null byte in tag key")
    ELSE IF AtEnd(q1 + 1, r.lim) THEN Throw(r, "no null byte in tag value")
    ELSE TagValue(r, update_pointer, q1, ScanNul(r.src, q1 + 1))

TagString(r, update_pointer) ==
    IF r.err # "" THEN r ELSE TagKey(r, update_pointer, ScanNul(r.src, r.at))

\* The while loop of O5mParser::decode_tags
RECURSIVE TagLoop(_)
TagLoop(d) ==
    IF d.err # "" \/ d.pos = Len(d.p) THEN d
    ELSE TagLoop(TagString(decode_string(d), ByteAt(d.p, d.pos) = 0))

\* O5mParser::decode_tags
decode_tags(d) == TagLoop(Reserve(d, list_size, "tags"))

\* "if (data != end) decode_tags(...)" (lines 399-401, 430-432, 502-504)
TagsIfAny(d) == IF d.err # "" \/ d.pos = Len(d.p) THEN d ELSE decode_tags(d)

\* decode_info after the changeset was read as cs (lines 369-376)
InfoUser(d, cs) ==
    IF cs.err # "" THEN Throw(d, cs.err)
    ELSE IF cs.pos = Len(d.p)
    THEN [d EXCEPT !.pos = cs.pos,
                   !.dl.changeset = Delta_update(@, cs.val),
                   !.e.changeset = Delta_update(d.dl.changeset, cs.val)]
    ELSE decode_user([d EXCEPT !.pos = cs.pos,
                               !.dl.changeset = Delta_update(@, cs.val),
                               !.e.changeset = Delta_update(d.dl.changeset, cs.val)])

\* decode_info reading the changeset and the user whatever the timestamp
InfoChangeset_always(d, ts) ==
    IF ts.err # "" THEN Throw(d, ts.err)
    ELSE InfoUser([d EXCEPT !.pos = ts.pos,
                            !.dl.timestamp = Delta_update(@, ts.val),
                            !.e.timestamp = Delta_update(d.dl.timestamp, ts.val)],
                  zvarint(d.p, ts.pos, Len(d.p)))

\* decode_info after the timestamp was read as ts (lines 366-369)
InfoChangeset(d, ts) ==
    IF ts.err # "" THEN Throw(d, ts.err)
    ELSE IF Delta_update(d.dl.timestamp, ts.val) = 0
    THEN [d EXCEPT !.pos = ts.pos, !.dl.timestamp = 0]
    ELSE InfoUser([d EXCEPT !.pos = ts.pos,
                            !.dl.timestamp = Delta_update(@, ts.val),
                            !.e.timestamp = Delta_update(d.dl.timestamp, ts.val)],
                  zvarint(d.p, ts.pos, Len(d.p)))

\* decode_info after the version was read as ver (lines 361-366).  A
\* varint of the model is below 2^31: "object version too large" is never
\* thrown.
InfoTimestamp(d, ver) ==
    IF ver.err # "" THEN Throw(d, ver.err)
    ELSE InfoChangeset([d EXCEPT !.pos = ver.pos, !.e.version = ver.val],
                       zvarint(d.p, ver.pos, Len(d.p)))

\* O5mParser::decode_info
decode_info(d) ==
    IF d.err # "" THEN d
    ELSE IF d.pos = Len(d.p)
    THEN Throw(d, "premature end of file while parsing object metadata")
    ELSE IF ByteAt(d.p, d.pos) = 0 THEN [d EXCEPT !.pos = d.pos + 1]
    ELSE InfoTimestamp(d, decode_varint(d.p, d.pos, Len(d.p)))

\* builder.set_id(m_delta_id.update(zvarint(&data, end))), id what zvarint
\* returned
SetId(d, id) ==
    IF d.err # "" THEN d
    ELSE IF id.err # "" THEN Throw(d, id.err)
    ELSE [d EXCEPT !.pos = id.pos, !.dl.id = Delta_update(@, id.val),
                   !.e.id = Delta_update(d.dl.id, id.val)]

\* The first statements of decode_node, decode_way and decode_relation:
\* the builder, the id and the metadata
decode_object(d) ==
    decode_info(SetId(Reserve(d, object_size, "object"), zvarint(d.p, d.pos, Len(d.p))))

\* osmium::Location{lon, lat}: a pair of int32, which have the low 32 bits
\* of the int64 values given; lon and lat are these low parts
Location(lon, lat) == <<lon, lat>>

\* decode_node after lon was read (lines 396, 397), lat what zvarint
\* returned
NodeLat(d, lat) ==
    IF d.err # "" THEN d
    ELSE IF lat.err # "" THEN Throw(d, lat.err)
    ELSE [d EXCEPT !.pos = lat.pos, !.dl.lat = Delta_low(@, lat.val),
                   !.dl.high.lat = @ + Delta_carry(d.dl.lat, lat.val),
                   !.e.loc = Location(d.dl.lon, Delta_low(d.dl.lat, lat.val))]

\* m_delta_lon.update(zvarint(&data, end)) (line 395)
NodeLon(d, lon) ==
    IF lon.err # "" THEN Throw(d, lon.err)
    ELSE [d EXCEPT !.pos = lon.pos, !.dl.lon = Delta_low(@, lon.val),
                   !.dl.high.lon = @ + Delta_carry(d.dl.lon, lon.val)]

NodeLocation(d) == NodeLat(d, zvarint(d.p, d.pos, Len(d.p)))

\* A variant of NodeBody with a fault planted: the node without a
\* location stays visible
NodeBody_visible(d) ==
    IF d.err # "" THEN d
    ELSE IF d.pos = Len(d.p)
    THEN [d EXCEPT !.e.loc = Location(undefined_coordinate, undefined_coordinate)]
    ELSE TagsIfAny(NodeLocation(NodeLon(d, zvarint(d.p, d.pos, Len(d.p)))))

\* decode_node after decode_info (lines 390-402)
NodeBody(d) ==
    IF d.err # "" THEN d
    ELSE IF d.pos = Len(d.p)
    THEN [d EXCEPT !.e.visible = FALSE,
                   !.e.loc = Location(undefined_coordinate, undefined_coordinate)]
    ELSE TagsIfAny(NodeLocation(NodeLon(d, zvarint(d.p, d.pos, Len(d.p)))))

\* O5mParser::decode_node
decode_node(d) == NodeBody(decode_object(d))

\* wn_builder.add_node_ref(m_delta_way_node_id.update(zvarint(&data, end)))
AddNodeRef(d, z) ==
    IF z.err # "" THEN Throw(d, z.err)
    ELSE [Reserve([d EXCEPT !.pos = z.pos, !.dl.way_node_id = Delta_update(@, z.val)],
                  element_size, "node_ref")
             EXCEPT !.e.refs = Append(@, Delta_update(d.dl.way_node_id, z.val))]

\* The while loop of decode_way over the node references
RECURSIVE WayNodeLoop(_, _)
WayNodeLoop(d, end_refs) ==
    IF d.err # "" \/ d.pos >= end_refs THEN d
    ELSE WayNodeLoop(AddNodeRef(d, zvarint(d.p, d.pos, Len(d.p))), end_refs)

\* decode_way after the length of the reference section was read as len
\* (lines 417-428)
WayRefs(d, len) ==
    IF len.err # "" THEN Throw(d, len.err)
    ELSE IF len.val = 0 THEN [d EXCEPT !.pos = len.pos]
    ELSE IF len.pos + len.val > Len(d.p)
    THEN Throw([d EXCEPT !.pos = len.pos], "way nodes ref section too long")
    ELSE WayNodeLoop(Reserve([d EXCEPT !.pos = len.pos], list_size, "way_nodes"),
                     len.pos + len.val)

\* decode_way after decode_info (lines 412-433)
WayBody(d) ==
    IF d.err # "" THEN d
    ELSE IF d.pos = Len(d.p) THEN [d EXCEPT !.e.visible = FALSE]
    ELSE TagsIfAny(WayRefs(d, decode_varint(d.p, d.pos, Len(d.p))))

\* O5mParser::decode_way
decode_way(d) == WayBody(decode_object(d))

\* O5mParser::decode_member_type with item_type_to_nwr_index: the index
\* 0, 1 or 2 of the member type of character c, -1 for "unknown member type"
decode_member_type(c) == IF c < 48 \/ c > 50 THEN -1 ELSE c - 48

\* decode_role from the while loop on (lines 456-467), q the offset of the
\* NUL byte ending the role; what it returns goes into type and role
RoleName(r, update_pointer, q) ==
    IF AtEnd(q, r.lim) THEN Throw(r, "no null byte in role")
    ELSE [UpdatePointer(r, update_pointer, q + 1)
             EXCEPT !.type = decode_member_type(ByteAt(r.src, r.at)),
                    !.role = Bytes(r.src, r.at + 1, q)]

\* decode_role after decode_string (lines 448-454)
RoleString(r, update_pointer) ==
    IF r.err # "" THEN r
    ELSE IF decode_member_type(ByteAt(r.src, r.at)) < 0 THEN Throw(r, "unknown member type")
    ELSE IF AtEnd(r.at + 1, r.lim) THEN Throw(r, "missing role")
    ELSE RoleName(r, update_pointer, ScanNul(r.src, r.at + 1))

\* O5mParser::decode_role
decode_role(d) == RoleString(decode_string(d), ByteAt(d.p, d.pos) = 0)

\* A variant of AddMember with a fault planted: one delta decoder for the
\* members of all types
AddMember_one_decoder(tr, delta_id) ==
    IF tr.err # "" THEN tr
    ELSE [Reserve([tr EXCEPT !.dl.member_ids[1] = Delta_update(@, delta_id)],
                  element_size, "member")
             EXCEPT !.e.members =
                 Append(@, <<tr.type, Delta_update(tr.dl.member_ids[1], delta_id),
                             tr.role>>)]

\* Lines 496-498: the member of type and role tr.type, tr.role and of
\* the reference delta_id away from the last one of its type
AddMember(tr, delta_id) ==
    IF tr.err # "" THEN tr
    ELSE [Reserve([tr EXCEPT !.dl.member_ids[tr.type + 1] = Delta_update(@, delta_id)],
                  element_size, "member")
             EXCEPT !.e.members =
                 Append(@, <<tr.type,
                             Delta_update(tr.dl.member_ids[tr.type + 1], delta_id),
                             tr.role>>)]

\* The body of the while loop of decode_relation, z what zvarint returned
Member(d, z) ==
    IF z.err # "" THEN Throw(d, z.err)
    ELSE IF z.pos = Len(d.p)
    THEN Throw([d EXCEPT !.pos = z.pos], "relation member format error")
    ELSE AddMember(decode_role([d EXCEPT !.pos = z.pos]), z.val)

\* The while loop of decode_relation over the members
RECURSIVE MemberLoop(_, _)
MemberLoop(d, end_refs) ==
    IF d.err # "" \/ d.pos >= end_refs THEN d
    ELSE MemberLoop(Member(d, zvarint(d.p, d.pos, Len(d.p))), end_refs)

\* decode_relation after the length of the reference section was read as
\* len (lines 482-500)
RelationMembers(d, len) ==
    IF len.err # "" THEN Throw(d, len.err)
    ELSE IF len.val = 0 THEN [d EXCEPT !.pos = len.pos]
    ELSE IF len.pos + len.val > Len(d.p)
    THEN Throw([d EXCEPT !.pos = len.pos], "relation format error")
    ELSE MemberLoop(Reserve([d EXCEPT !.pos = len.pos], list_size, "members"),
                    len.pos + len.val)

\* decode_relation after decode_info (lines 477-505)
RelationBody(d) ==
    IF d.err # "" THEN d
    ELSE IF d.pos = Len(d.p) THEN [d EXCEPT !.e.visible = FALSE]
    ELSE TagsIfAny(RelationMembers(d, decode_varint(d.p, d.pos, Len(d.p))))

\* O5mParser::decode_relation
decode_relation(d) == RelationBody(decode_object(d))

(***************************************************************************)
(* The state of a run of O5mParser.                                        *)
(*   pc         : "header" before decode_header, "data" in the loop of     *)
(*                decode_data, "done" after run() has returned or thrown   *)
(*   status     : the terminal status: "" while running, "ok", or the      *)
(*                message of the exception that ended the run              *)
(*   rd         : the input side                                           *)
(*   m_header   : the pending header                                       *)
(*   m_delta    : the nine delta decoders                                  *)
(*   m_buffer   : buffer(), the current output buffer                      *)
(*   out        : what the sink has received, in order: the header and     *)
(*                the buffers                                              *)
(*   header_is_done : the header promise is fulfilled                      *)
(*   read_types : the entity kinds the consumer asked for                  *)
(*   file       : history: the bytes of the input file                     *)
(*   log        : history: the datasets dispatched so far, each with the   *)
(*                type byte and the payload as decode_data read them       *)
(***************************************************************************)
VARIABLES pc, status, rd, m_header, m_delta, m_buffer, out, header_is_done,
          read_types, file, log,
          buf_last,  \* the last operation on the buffer under test, its result
                     \* and the calls it made
          env        \* the threads around the parser: the chunks the upstream
                     \* has still to hand over, the number of buffers the
                     \* consumer has pulled from the queue, and whether the
                     \* thread of the parser runs or what it waits for

pvars == <<pc, status, rd, m_header, m_delta, m_buffer, out, header_is_done,
           read_types, file, log, buf_last, env>>

vars == <<rtvars, pvars>>

\* The upstream has handed over every chunk of the input, the consumer
\* has pulled nothing, and the parser runs
Env_all_delivered == [upstream |-> <<>>, pulled |-> 0, parser |-> "runs"]

\* The run as one record, which the operators below transform
Run ==
    [pc |-> pc, status |-> status, rd |-> rd, m_header |-> m_header,
     m_reference_table |-> m_reference_table, inserted |-> inserted,
     m_delta |-> m_delta, m_buffer |-> m_buffer, out |-> out,
     header_is_done |-> header_is_done, log |-> log]

Becomes(s) ==
    /\ pc' = s.pc
    /\ status' = s.status
    /\ rd' = s.rd
    /\ m_header' = s.m_header
    /\ m_reference_table' = s.m_reference_table
    /\ inserted' = s.inserted
    /\ m_delta' = s.m_delta
    /\ m_buffer' = s.m_buffer
    /\ out' = s.out
    /\ header_is_done' = s.header_is_done
    /\ log' = s.log
    /\ UNCHANGED <<read_types, file, rt_last, buf_last, env>>

(***************************************************************************)
(* Parser and ParserWithBuffer: the sink side of the decoder.              *)
(***************************************************************************)

\* The capacity of a fresh output buffer (initial_buffer_size, scaled down
\* so that a few objects fill it)
BufferCapacity == 96

\* The objects of the areas of a buffer, in the order of their offsets
Entities(chunks) ==
    LET objs == SelectSeq(chunks, LAMBDA c : c.it.part = "object")
    IN  [i \in 1..Len(objs) |-> objs[i].it.obj]

\* A buffer handed to the sink: its committed items
send_to_output_queue(s, b) ==
    [s EXCEPT !.out = Append(@, [kind |-> "buffer", header |-> <<>>,
                                 items |-> Entities(CommittedChunks(b))])]

\* The worst-case size of an object of the given type: the object itself,
\* its lists coming on top
worst_case_size(type) == object_size

\* Parser::set_header_value: fulfils the header promise, once
set_header_value(s, header) ==
    IF s.header_is_done THEN s
    ELSE [s EXCEPT !.header_is_done = TRUE,
                   !.out = Append(@, [kind |-> "header", header |-> header,
                                      items |-> <<>>])]

\* ParserWithBuffer::maybe_new_buffer
maybe_new_buffer(s, type) ==
    IF s.m_buffer.capacity - s.m_buffer.committed < worst_case_size(type)
    THEN [(IF s.m_buffer.committed > 0 THEN send_to_output_queue(s, s.m_buffer) ELSE s)
             EXCEPT !.m_buffer = Buffer_new(BufferCapacity, "internal")]
    ELSE s

\* ParserWithBuffer::flush_nested_buffer
flush_nested_buffer(s) ==
    IF has_nested_buffers(s.m_buffer)
    THEN LET g == get_last_nested(s.m_buffer)
         IN  [send_to_output_queue(s, g.got) EXCEPT !.m_buffer = g.b]
    ELSE s

RECURSIVE FlushPredecessors(_)
FlushPredecessors(s) ==
    IF has_nested_buffers(s.m_buffer) THEN FlushPredecessors(flush_nested_buffer(s)) ELSE s

\* ParserWithBuffer::flush_final_buffer; the buffer moved to the sink
\* leaves an empty one behind
flush_final_buffer(s) ==
    LET f == FlushPredecessors(s)
    IN  IF f.m_buffer.committed > 0
        THEN [send_to_output_queue(f, f.m_buffer) EXCEPT !.m_buffer = Buffer_clear(f.m_buffer)]
        ELSE f

(***************************************************************************)
(* O5mParser: header, dispatcher and the header datasets.                  *)
(***************************************************************************)

\* "overall length of header"
header_size == 7

\* dataset_type
ds_node == 16

ds_way == 17

ds_relation == 18

ds_bounding_box == 219

ds_timestamp == 220

ds_jump == 239

ds_reset == 255

Header_new == [has_multiple_object_versions |-> FALSE, boxes |-> <<>>,
               o5m_timestamp |-> <<>>, timestamp |-> <<>>]

\* osmium::Timestamp{t}.to_iso(): the empty string for the invalid
\* timestamp 0, otherwise the date of second t
to_iso(t) == IF t = 0 THEN <<>> ELSE <<"iso", t>>

\* O5mParser::mark_header_as_done
mark_header_as_done(s) == set_header_value(s, s.m_header)

\* The run ends with the exception what
Fail(s, what) == [s EXCEPT !.pc = "done", !.status = what]

\* A variant of decode_header with a fault planted: the format version is
\* not looked at
decode_header_any_version(s, uv) ==
    LET e == ensure_bytes_available(s.rd, header_size, uv)
        r == e.rd
        at(i) == ByteAt(r.mem, r.m_data + i)
    IN  IF ~e.ok THEN Fail([s EXCEPT !.rd = r], "file too short (incomplete header info)")
        ELSE IF <<at(0), at(1), at(2), at(3), at(4)>> # <<255, 224, 4, 111, 53>>
        THEN Fail([s EXCEPT !.rd = r], "wrong header magic")
        ELSE IF at(5) \notin {109, 99}
        THEN Fail([s EXCEPT !.rd = [r EXCEPT !.m_data = @ + 5]], "wrong header magic")
        ELSE [s EXCEPT !.rd = [r EXCEPT !.m_data = @ + header_size],
                       !.m_header.has_multiple_object_versions = (at(5) = 99),
                       !.pc = "data"]

\* O5mParser::decode_header with check_header_magic, check_file_type and
\* check_file_format_version
decode_header(s, uv) ==
    LET e == ensure_bytes_available(s.rd, header_size, uv)
        r == e.rd
        at(i) == ByteAt(r.mem, r.m_data + i)
    IN  IF ~e.ok THEN Fail([s EXCEPT !.rd = r], "file too short (incomplete header info)")
        ELSE IF <<at(0), at(1), at(2), at(3), at(4)>> # <<255, 224, 4, 111, 53>>
        THEN Fail([s EXCEPT !.rd = r], "wrong header magic")
        ELSE IF at(5) \notin {109, 99}
        THEN Fail([s EXCEPT !.rd = [r EXCEPT !.m_data = @ + 5]], "wrong header magic")
        ELSE IF at(6) # 50
        THEN Fail([s EXCEPT !.rd = [r EXCEPT !.m_data = @ + 6],
                            !.m_header.has_multiple_object_versions = (at(5) = 99)],
                  "wrong header magic")
        ELSE [s EXCEPT !.rd = [r EXCEPT !.m_data = @ + header_size],
                       !.m_header.has_multiple_object_versions = (at(5) = 99),
                       !.pc = "data"]

\* A variant of reset() with a fault planted: m_delta_lon is forgotten
reset_keeps_lon(s) ==
    [s EXCEPT !.m_reference_table = RT_clear(@),
              !.inserted = <<>>,
              !.m_delta = [id |-> 0, timestamp |-> 0, changeset |-> 0, lon |-> @.lon,
                           lat |-> 0, high |-> [lon |-> @.high.lon, lat |-> 0],
                           way_node_id |-> 0, member_ids |-> <<0, 0, 0>>]]

\* O5mParser::reset
reset(s) ==
    [s EXCEPT !.m_reference_table = RT_clear(@),
              !.inserted = <<>>,
              !.m_delta = [id |-> 0, timestamp |-> 0, changeset |-> 0, lon |-> 0,
                           lat |-> 0, high |-> [lon |-> 0, lat |-> 0],
                           way_node_id |-> 0, member_ids |-> <<0, 0, 0>>]]

\* A variant of decode_bbox with a fault planted: the box is not added
decode_bbox_ignored(s, payload) == s

\* O5mParser::decode_bbox
decode_bbox(s, payload) ==
    LET sw_lon == zvarint(payload, 0, Len(payload))
        sw_lat == zvarint(payload, sw_lon.pos, Len(payload))
        ne_lon == zvarint(payload, sw_lat.pos, Len(payload))
        ne_lat == zvarint(payload, ne_lon.pos, Len(payload))
    IN  IF sw_lon.err # "" THEN Fail(s, sw_lon.err)
        ELSE IF sw_lat.err # "" THEN Fail(s, sw_lat.err)
        ELSE IF ne_lon.err # "" THEN Fail(s, ne_lon.err)
        ELSE IF ne_lat.err # "" THEN Fail(s, ne_lat.err)
        ELSE [s EXCEPT !.m_header.boxes =
                 Append(@, <<Location(sw_lon.val, sw_lat.val),
                             Location(ne_lon.val, ne_lat.val)>>)]

\* O5mParser::decode_timestamp
\* decode_timestamp writing through to the header that was published
decode_timestamp_through(s, payload) ==
    LET t == zvarint(payload, 0, Len(payload))
    IN  IF t.err # "" THEN Fail(s, t.err)
        ELSE [s EXCEPT !.m_header.o5m_timestamp = to_iso(t.val),
                       !.m_header.timestamp = to_iso(t.val),
                       !.out = [i \in DOMAIN @ |->
                                  IF @[i].kind = "header"
                                  THEN [@[i] EXCEPT !.header.o5m_timestamp = to_iso(t.val),
                                                    !.header.timestamp = to_iso(t.val)]
                                  ELSE @[i]]]

decode_timestamp(s, payload) ==
    LET t == zvarint(payload, 0, Len(payload))
    IN  IF t.err # "" THEN Fail(s, t.err)
        ELSE [s EXCEPT !.m_header.o5m_timestamp = to_iso(t.val),
                       !.m_header.timestamp = to_iso(t.val)]

\* What an iteration of the loop of decode_data has read so far:
\*   kind : "end" (no byte left), "marker" (a type above jump), "error"
\*          (the length or the payload is not there) or "dataset"
\*   type, length, payload : the type byte, the length read and the bytes
\*          [m_data, m_data + length)
\*   rd   : the input side after the reading
Reading(kind, type, r) ==
    [kind |-> kind, type |-> type, length |-> 0, payload |-> <<>>, err |-> "", rd |-> r]

\* Lines 537-539: e what ensure_bytes_available(1) returned
\* The type byte read without the cursor moving on
TypeRead_stays(e) ==
    IF ~e.ok THEN Reading("end", 0, e.rd)
    ELSE Reading(IF ByteAt(e.rd.mem, e.rd.m_data) > ds_jump THEN "marker" ELSE "dataset",
                 ByteAt(e.rd.mem, e.rd.m_data), e.rd)

TypeRead(e) ==
    IF ~e.ok THEN Reading("end", 0, e.rd)
    ELSE Reading(IF ByteAt(e.rd.mem, e.rd.m_data) > ds_jump THEN "marker" ELSE "dataset",
                 ByteAt(e.rd.mem, e.rd.m_data),
                 [e.rd EXCEPT !.m_data = @ + 1])

\* Lines 546-551: r the input side after ensure_bytes_available(
\* max_varint_length), whose result line 544 does not look at, and length
\* what decode_varint(&m_data, m_end) returned
LengthDecoded(f, r, length) ==
    IF length.err = "end of buffer"
    THEN [f EXCEPT !.kind = "error", !.rd = r, !.err = "premature end of file"]
    ELSE IF length.err # ""
    THEN [f EXCEPT !.kind = "error", !.rd = r, !.err = length.err]
    ELSE [f EXCEPT !.length = length.val, !.rd = [r EXCEPT !.m_data = length.pos]]

LengthRead(f, r) == LengthDecoded(f, r, decode_varint(r.mem, r.m_data, r.m_end))

\* Lines 553-555: e what ensure_bytes_available(length) returned
PayloadRead(f, e) ==
    IF ~e.ok
    THEN [f EXCEPT !.kind = "error", !.rd = e.rd, !.err = "premature end of file"]
    ELSE [f EXCEPT !.rd = e.rd,
                   !.payload = Bytes(e.rd.mem, e.rd.m_data, e.rd.m_data + f.length)]

ReadPayload(f, uv) ==
    IF f.kind # "dataset" THEN f
    ELSE PayloadRead(f, ensure_bytes_available(f.rd, f.length, uv))

ReadLength(f, uv) ==
    IF f.kind # "dataset" THEN f
    ELSE LengthRead(f, ensure_bytes_available(f.rd, max_varint_length, uv).rd)

\* The head of one iteration of the loop of decode_data (lines 537-555)
ReadDataset(r0, uv) ==
    ReadPayload(ReadLength(TypeRead(ensure_bytes_available(r0, 1, uv)), uv), uv)

\* The run after the reading f, with the entry of the log for it
Logged(s, f) ==
    IF f.kind \in {"marker", "dataset"}
    THEN [s EXCEPT !.rd = f.rd, !.log = Append(@, [type |-> f.type, payload |-> f.payload])]
    ELSE [s EXCEPT !.rd = f.rd]

\* A variant of the end of decode_data with a fault planted: line 603 is
\* missing
EndRun_without_header(s) ==
    [flush_final_buffer(s) EXCEPT !.pc = "done", !.status = "ok"]

\* The end of decode_data (lines 603-604)
EndRun(s) ==
    [flush_final_buffer(mark_header_as_done(s)) EXCEPT !.pc = "done", !.status = "ok"]

\* A variant of AfterSwitch with a fault planted: the break of lines
\* 593-595 is missing
AfterSwitch_no_break(s, length) ==
    IF s.pc = "done" THEN s
    ELSE flush_nested_buffer([s EXCEPT !.rd.m_data = @ + length])

\* A variant of AfterSwitch with a fault planted: line 599 is missing
AfterSwitch_no_flush(s, length) ==
    IF s.pc = "done" THEN s
    ELSE IF read_types = {} /\ s.header_is_done THEN EndRun(s)
    ELSE [s EXCEPT !.rd.m_data = @ + length]

\* What follows the switch (lines 593-599)
AfterSwitch(s, length) ==
    IF s.pc = "done" THEN s
    ELSE IF read_types = {} /\ s.header_is_done THEN EndRun(s)
    ELSE flush_nested_buffer([s EXCEPT !.rd.m_data = @ + length])

\* The decode state for a payload
DecodeState(s, payload, kind) ==
    [p |-> payload, pos |-> 0, rt |-> s.m_reference_table, ins |-> s.inserted,
     dl |-> s.m_delta, buf |-> s.m_buffer, e |-> Object_new(kind), err |-> "",
     src |-> <<>>, at |-> 0, lim |-> 0, type |-> 0, role |-> <<>>]

\* A variant of CommitObject with a fault planted: the commit is reached
\* although the decoder has thrown
CommitObject_always(d) ==
    Buffer_commit([d.buf EXCEPT !.chunks[d.buf.ncommit + 1].it.obj = d.e])

\* buffer().commit() after decode_node, decode_way or decode_relation
\* (lines 563, 571, 579): not reached when the decoder throws.  The
\* builder's object is what the first of the reserved areas holds.
CommitObject(d) ==
    IF d.err # "" THEN d.buf
    ELSE Buffer_commit([d.buf EXCEPT !.chunks[d.buf.ncommit + 1].it.obj = d.e])

\* The run after the decoder of an object ended in d
Decoded(s, d) ==
    [s EXCEPT !.m_reference_table = d.rt, !.inserted = d.ins, !.m_delta = d.dl,
              !.m_buffer = CommitObject(d),
              !.pc = IF d.err # "" THEN "done" ELSE @,
              !.status = d.err]

\* The cases node, way and relation of the switch up to the call of the
\* decoder (lines 559-561, 567-569, 575-577)
BeginObject(s, kind) ==
    IF kind \in read_types THEN maybe_new_buffer(mark_header_as_done(s), kind)
    ELSE mark_header_as_done(s)

\* case dataset_type::node (lines 558-565)
NodeDecoded(s, payload) == Decoded(s, decode_node(DecodeState(s, payload, "node")))

\* A variant of NodeCase with a fault planted: read_types is not looked at
NodeCase_any_mask(s, payload) == NodeDecoded(BeginObject(s, "node"), payload)

NodeCase(s, payload) ==
    IF "node" \in read_types THEN NodeDecoded(BeginObject(s, "node"), payload)
    ELSE BeginObject(s, "node")

\* case dataset_type::way (lines 566-573)
WayDecoded(s, payload) == Decoded(s, decode_way(DecodeState(s, payload, "way")))

WayCase(s, payload) ==
    IF "way" \in read_types THEN WayDecoded(BeginObject(s, "way"), payload)
    ELSE BeginObject(s, "way")

\* case dataset_type::relation (lines 574-581)
RelationDecoded(s, payload) ==
    Decoded(s, decode_relation(DecodeState(s, payload, "relation")))

RelationCase(s, payload) ==
    IF "relation" \in read_types THEN RelationDecoded(BeginObject(s, "relation"), payload)
    ELSE BeginObject(s, "relation")

\* One iteration of the loop of decode_data that has read f
Dispatch(s, f) ==
    CASE f.kind = "end" -> EndRun(s)
      [] f.kind = "error" -> Fail(s, f.err)
      [] f.kind = "marker" -> IF f.type = ds_reset THEN reset(s) ELSE s
      [] f.type = ds_node -> AfterSwitch(NodeCase(s, f.payload), f.length)
      [] f.type = ds_way -> AfterSwitch(WayCase(s, f.payload), f.length)
      [] f.type = ds_relation -> AfterSwitch(RelationCase(s, f.payload), f.length)
      [] f.type = ds_bounding_box -> AfterSwitch(decode_bbox(s, f.payload), f.length)
      [] f.type = ds_timestamp -> AfterSwitch(decode_timestamp(s, f.payload), f.length)
      [] OTHER -> AfterSwitch(s, f.length)

(***************************************************************************)
(* The runs of the decoder: the input files, how the reader cuts them into *)
(* chunks, what the consumer asks for, and one action for each way an      *)
(* iteration of the loop of decode_data can go.                            *)
(***************************************************************************)

\* How many datasets an input file has at most
MaxDatasets == 2

\* FF E0 04 'o' '5' 'm' '2'
FileHeader == <<255, 224, 4, 111, 53, 109, 50>>

\* The datasets the files are made of
Menu ==
    { <<16, 2, 2, 0>>,                              \* node id+1, deleted
      <<16, 9, 2, 0, 2, 4, 0, 107, 0, 118, 0>>,     \* node with the tag k=v inline
      <<16, 5, 2, 0, 2, 4, 1>>,                     \* node with the tag of reference 1
      <<16, 11, 2, 1, 2, 2, 0, 5, 0, 117, 0, 2, 4>>,\* node with version, time, user
      <<17, 4, 2, 0, 1, 6>>,                        \* way with one node reference
      <<18, 8, 2, 0, 5, 4, 0, 49, 114, 0>>,         \* relation with one member
      <<219, 4, 2, 4, 6, 8>>,                       \* bounding box
      <<220, 1, 10>>,                               \* timestamp
      <<255>>,                                      \* reset
      <<254>>,                                      \* another marker
      <<32, 1, 85>>,                                \* unknown dataset
      <<16, 1, 2>>,                                 \* node without metadata byte
      <<16, 5, 2, 0>>,                              \* node, payload cut short
      <<32, 133>> }                                 \* length varint cut short

RECURSIVE Bodies(_)
Bodies(n) ==
    IF n = 0 THEN {<<>>}
    ELSE LET shorter == Bodies(n - 1)
         IN  shorter \cup {b \o m : b \in shorter, m \in Menu}

\* FF E0 04 'o' '5' 'c' '2'
ChangeFileHeader == <<255, 224, 4, 111, 53, 99, 50>>

\* Inputs of fewer bytes than a header has
ShortFiles == {SubSeq(FileHeader, 1, n) : n \in 0..(header_size - 1)}

\* Inputs with a header that is wrong in one byte, and a node after it
WrongHeaders ==
    {[h EXCEPT ![i] = 0] : h \in {FileHeader, ChangeFileHeader}, i \in 1..header_size}
        \cup {[FileHeader EXCEPT ![6] = 77], [FileHeader EXCEPT ![7] = 49],
              [ChangeFileHeader EXCEPT ![7] = 51], [FileHeader EXCEPT ![1] = 254]}

Files ==
    {FileHeader \o b : b \in Bodies(MaxDatasets)}
        \cup {ChangeFileHeader \o b : b \in Bodies(1)}
        \cup ShortFiles
        \cup {h \o <<16, 2, 2, 0>> : h \in WrongHeaders}

\* The chunks of n bytes the reader delivers s in; 0: in one piece
RECURSIVE Chunks(_, _)
Chunks(s, n) ==
    IF n = 0 \/ Len(s) <= n THEN <<s>>
    ELSE <<SubSeq(s, 1, n)>> \o Chunks(SubSeq(s, n + 1, Len(s)), n)

ChunkSizes == {0, 1, header_size}

ReadTypes == { {"node", "way", "relation"}, {"node"}, {"way", "relation"}, {} }

Init ==
    /\ file \in Files
    /\ \E n \in ChunkSizes : rd = RD_new(Chunks(file, n))
    /\ read_types \in ReadTypes
    /\ pc = "header"
    /\ status = ""
    /\ m_header = Header_new
    /\ m_delta = Deltas_new
    /\ m_buffer = Buffer_new(BufferCapacity, "internal")
    /\ out = <<>>
    /\ header_is_done = FALSE
    /\ log = <<>>
    /\ m_reference_table = RT_new
    /\ inserted = <<>>
    /\ rt_last = [op |-> "new", index |-> 0, err |-> FALSE, bytes |-> <<>>, adds |-> 0]
    /\ buf_last = [op |-> "new", err |-> "", made |-> 0, size |-> 0, calls |-> <<>>, got |-> <<>>]
    /\ env = Env_all_delivered

DecodeHeader ==
    /\ pc = "header"
    /\ \E uv \in UBOutcomes(rd) : Becomes(decode_header(Run, uv))

\* One iteration of the loop of decode_data: what it reads, and Run after it
Step(f) == Dispatch(Logged(Run, f), f)

EndOfData ==
    /\ pc = "data"
    /\ \E uv \in UBOutcomes(rd) : \E f \in {ReadDataset(rd, uv)} :
          f.kind = "end" /\ Becomes(Step(f))

PrematureEnd ==
    /\ pc = "data"
    /\ \E uv \in UBOutcomes(rd) : \E f \in {ReadDataset(rd, uv)} :
          f.kind = "error" /\ Becomes(Step(f))

Reset ==
    /\ pc = "data"
    /\ \E uv \in UBOutcomes(rd) : \E f \in {ReadDataset(rd, uv)} :
          f.kind = "marker" /\ f.type = ds_reset /\ Becomes(Step(f))

Marker ==
    /\ pc = "data"
    /\ \E uv \in UBOutcomes(rd) : \E f \in {ReadDataset(rd, uv)} :
          f.kind = "marker" /\ f.type # ds_reset /\ Becomes(Step(f))

DecodeNode ==
    /\ pc = "data"
    /\ \E uv \in UBOutcomes(rd) : \E f \in {ReadDataset(rd, uv)} :
          f.kind = "dataset" /\ f.type = ds_node /\ Becomes(Step(f))

DecodeWay ==
    /\ pc = "data"
    /\ \E uv \in UBOutcomes(rd) : \E f \in {ReadDataset(rd, uv)} :
          f.kind = "dataset" /\ f.type = ds_way /\ Becomes(Step(f))

DecodeRelation ==
    /\ pc = "data"
    /\ \E uv \in UBOutcomes(rd) : \E f \in {ReadDataset(rd, uv)} :
          f.kind = "dataset" /\ f.type = ds_relation /\ Becomes(Step(f))

DecodeBBox ==
    /\ pc = "data"
    /\ \E uv \in UBOutcomes(rd) : \E f \in {ReadDataset(rd, uv)} :
          f.kind = "dataset" /\ f.type = ds_bounding_box /\ Becomes(Step(f))

DecodeTimestamp ==
    /\ pc = "data"
    /\ \E uv \in UBOutcomes(rd) : \E f \in {ReadDataset(rd, uv)} :
          f.kind = "dataset" /\ f.type = ds_timestamp /\ Becomes(Step(f))

SkipDataset ==
    /\ pc = "data"
    /\ \E uv \in UBOutcomes(rd) : \E f \in {ReadDataset(rd, uv)} :
          /\ f.kind = "dataset"
          /\ f.type \notin {ds_node, ds_way, ds_relation, ds_bounding_box, ds_timestamp}
          /\ Becomes(Step(f))

Next ==
    \/ DecodeHeader
    \/ EndOfData
    \/ PrematureEnd
    \/ Reset
    \/ Marker
    \/ DecodeNode
    \/ DecodeWay
    \/ DecodeRelation
    \/ DecodeBBox
    \/ DecodeTimestamp
    \/ SkipDataset

Spec == Init /\ [][Next]_vars

(***************************************************************************)
(* The parser between its two threads: the upstream hands the chunks of    *)
(* the input over one by one and signals the end after the last, the       *)
(* consumer pulls the buffers from a queue of MaxQueue places.  A pass of  *)
(* the parser that would come to the end of the chunks handed over so far  *)
(* waits in get_input() until the upstream has handed over the next, and   *)
(* one that has a buffer for a full queue waits until the consumer has     *)
(* pulled; the pass is made when the thread runs again.                    *)
(***************************************************************************)
MaxQueue == 1

\* The buffers of o: what went through the queue, the header apart
Buffers(o) == Len(SelectSeq(o, LAMBDA x : x.kind # "header"))

InitLive ==
    /\ file \in Files
    /\ \E n \in ChunkSizes :
          env = [upstream |-> Chunks(file, n), pulled |-> 0, parser |-> "runs"]
    /\ rd = RD_new(<<>>)
    /\ read_types \in ReadTypes
    /\ pc = "header"
    /\ status = ""
    /\ m_header = Header_new
    /\ m_delta = Deltas_new
    /\ m_buffer = Buffer_new(BufferCapacity, "internal")
    /\ out = <<>>
    /\ header_is_done = FALSE
    /\ log = <<>>
    /\ m_reference_table = RT_new
    /\ inserted = <<>>
    /\ rt_last = [op |-> "new", index |-> 0, err |-> FALSE, bytes |-> <<>>, adds |-> 0]
    /\ buf_last = [op |-> "new", err |-> "", made |-> 0, size |-> 0, calls |-> <<>>, got |-> <<>>]

\* The run after decode_header, or after the next pass of the loop of
\* decode_data
Pass(uv) ==
    IF pc = "header" THEN decode_header(Run, uv) ELSE Step(ReadDataset(rd, uv))

\* The pass that leads to t comes to the end of the chunks handed over
\* while the upstream has more of them: get_input() waits
WaitsForInput(t) == t.rd.done /\ ~rd.done /\ env.upstream # <<>>

\* The pass that leads to t sends buffers the queue has no room for
WaitsForRoom(t) ==
    Buffers(t.out) > Buffers(out) /\ Buffers(t.out) - env.pulled > MaxQueue

\* decode_header or one pass of the loop of decode_data, made when it has
\* not to wait
ParserPass ==
    /\ env.parser = "runs"
    /\ Next
    /\ ~WaitsForInput([rd |-> rd']) /\ ~WaitsForRoom([out |-> out'])

\* The thread of the parser begins to wait, for the upstream or for the
\* consumer
ParserWaits ==
    /\ env.parser = "runs"
    /\ pc \in {"header", "data"}
    /\ \E uv \in UBOutcomes(rd) : \E t \in {Pass(uv)} :
          \/ WaitsForInput(t) /\ env' = [env EXCEPT !.parser = "input"]
          \/ ~WaitsForInput(t) /\ WaitsForRoom(t) /\ env' = [env EXCEPT !.parser = "room"]
    /\ UNCHANGED <<rtvars, pc, status, rd, m_header, m_delta, m_buffer, out,
                   header_is_done, read_types, file, log, buf_last>>

ParserStep == ParserPass \/ ParserWaits

\* The upstream hands the next chunk over, and the parser that waits for
\* it runs again
Upstream ==
    /\ env.upstream # <<>>
    /\ rd' = [rd EXCEPT !.inq = Append(@, Head(env.upstream))]
    /\ env' = [env EXCEPT !.upstream = Tail(@),
                          !.parser = IF @ = "input" THEN "runs" ELSE @]
    /\ UNCHANGED <<rtvars, pc, status, m_header, m_delta, m_buffer, out, header_is_done,
                   read_types, file, log, buf_last>>

\* The consumer pulls a buffer from the queue, and the parser that waits
\* for room runs again
Consumer ==
    /\ env.pulled < Buffers(out)
    /\ env' = [env EXCEPT !.pulled = @ + 1,
                          !.parser = IF @ = "room" THEN "runs" ELSE @]
    /\ UNCHANGED <<rtvars, pc, status, rd, m_header, m_delta, m_buffer, out,
                   header_is_done, read_types, file, log, buf_last>>

NextLive == ParserPass \/ ParserWaits \/ Upstream \/ Consumer

\* A step of the parser is possible exactly when its run is not over and
\* its thread does not wait
ParserCanStep == pc \in {"header", "data"} /\ env.parser = "runs"

\* The upstream goes on to the end of its input, the consumer goes on
\* pulling, and the thread of the parser is scheduled: weak fairness of
\* ParserStep, with ParserCanStep for ENABLED <<ParserStep>>_vars
SpecLive ==
    /\ InitLive /\ [][NextLive]_vars
    /\ WF_vars(Upstream) /\ WF_vars(Consumer)
    /\ ([]<>(~ParserCanStep) \/ []<><<ParserStep>>_vars)

(***************************************************************************)
(* The reference table on its own: any sequence of add, get and clear.     *)
(***************************************************************************)

\* An interned string as the decoder passes it to add(): the bytes
\* including their terminating NUL bytes.
Oversize == Fill(max_length + 1, 65) \o <<0>>

RTStrings == { <<97, 0, 98, 0>>, <<99, 99, 0, 100, 100, 100, 0>>, <<49, 114, 0>>, Oversize }

\* The stand-alone specification makes up to two add() calls more than one
\* full turn of the ring.
MaxAdds == number_of_entries + 2

InitRT ==
    /\ m_reference_table = RT_new
    /\ inserted = <<>>
    /\ rt_last = [op |-> "new", index |-> 0, err |-> FALSE, bytes |-> <<>>, adds |-> 0]
    /\ buf_last = [op |-> "new", err |-> "", made |-> 0, size |-> 0, calls |-> <<>>, got |-> <<>>]
    /\ env = Env_all_delivered
    /\ pc = "table"
    /\ status = ""
    /\ file = <<>>
    /\ rd = RD_new(<<>>)
    /\ read_types = {}
    /\ m_header = Header_new
    /\ m_delta = Deltas_new
    /\ m_buffer = Buffer_new(BufferCapacity, "internal")
    /\ out = <<>>
    /\ header_is_done = FALSE
    /\ log = <<>>

RTAdd ==
    \E s \in RTStrings :
        /\ rt_last.adds < MaxAdds
        /\ m_reference_table' = RT_add(m_reference_table, s)
        /\ inserted' = IF Len(s) <= max_length THEN Append(inserted, s) ELSE inserted
        /\ rt_last' = [op |-> "add", index |-> 0, err |-> FALSE, bytes |-> <<>>,
                       adds |-> rt_last.adds + 1]
        /\ UNCHANGED pvars

RTGet ==
    \E index \in 0..(number_of_entries + 2) :
        LET r == RT_get(m_reference_table, index)
        IN  /\ rt_last' = [op |-> "get", index |-> index, err |-> r.err,
                           bytes |-> IF r.err THEN <<>> ELSE m_reference_table.tab[r.slot],
                           adds |-> rt_last.adds]
            /\ UNCHANGED <<m_reference_table, inserted>>
            /\ UNCHANGED pvars

RTClear ==
    /\ m_reference_table' = RT_clear(m_reference_table)
    /\ inserted' = <<>>
    /\ rt_last' = [op |-> "clear", index |-> 0, err |-> FALSE, bytes |-> <<>>,
                   adds |-> rt_last.adds]
    /\ UNCHANGED pvars

NextRT == RTAdd \/ RTGet \/ RTClear

SpecRT == InitRT /\ [][NextRT]_vars

(***************************************************************************)
(* The switch of decode_data on its own: the datasets arrive framed, one   *)
(* at a time, and the consumer asks for every kind.  rd.inq holds the      *)
(* datasets still to come, each as its type byte followed by its payload.  *)
(***************************************************************************)

\* How many datasets the scripts made of DecMenu have at most
MaxScript == 2

\* A string pair as it is written inline: 0, first, 0, second, 0
Inline(first, second) == <<0>> \o first \o <<0>> \o second \o <<0>>

\* Node datasets: id +1, then no metadata (0) or version 1, time +1,
\* changeset +1 and the user, then lon +1, lat +2 and the tags
NodeTagged(tags) == <<16, 2, 0, 2, 4>> \o tags

NodeByUser(user) == <<16, 2, 1, 2, 2>> \o user \o <<2, 4>>

\* A relation dataset: id +1, no metadata, a reference section of the one
\* member of id +2 with the given type and role, no tags
RelationOfMember(typerole) == <<18, 2, 0, 1 + Len(typerole), 4>> \o typerole

\* The string pairs the datasets of DecMenu carry inline: a tag k=v, the
\* user 5 "u", the anonymous user, and the member type way with role "r"
TagKV == Inline(<<107>>, <<118>>)

User5 == Inline(<<5>>, <<117>>)

UserAnonymous == <<0, 0, 0>>

RoleWayR == <<0, 49, 114, 0>>

DecMenu ==
    { <<16, 2, 0>>,                  \* node, deleted
      NodeTagged(TagKV),
      NodeTagged(<<1>>),             \* node with the tag of reference 1
      NodeTagged(<<2>>),             \* node with the tag of reference 2
      NodeByUser(User5),
      NodeByUser(UserAnonymous),
      NodeByUser(<<1>>),             \* node with the user of reference 1
      <<17, 2, 0>>,                  \* way, deleted
      <<17, 2, 0, 1, 6>>,            \* way with one node reference
      <<18, 2, 0>>,                  \* relation, deleted
      RelationOfMember(RoleWayR),
      RelationOfMember(<<1>>),       \* relation with the member of reference 1
      <<16, 2, 0, 2>>,               \* node whose latitude is missing
      <<255>> }                      \* reset

RECURSIVE Scripts(_)
Scripts(n) ==
    IF n = 0 THEN {<<>>}
    ELSE LET shorter == Scripts(n - 1)
         IN  shorter \cup {Append(b, m) : b \in shorter, m \in DecMenu}

\* A tag whose key, value and two NUL bytes come to max_length + 2 bytes,
\* and one of exactly max_length bytes
OversizeTag == Inline(<<107>>, Fill(max_length - 1, 65))

LargestTag == Inline(<<107>>, Fill(max_length - 3, 66))

\* Scripts with a string too long for the table: any dataset, the node
\* with the long tag, and a node with a back-reference
OversizeScripts ==
    {<<a, NodeTagged(OversizeTag), NodeTagged(b)>> : a \in DecMenu, b \in {<<1>>, <<2>>}}

\* The datasets with an inline string pair, each with the dataset that has
\* the back-reference 1 in its place
Twins ==
    { <<NodeTagged(TagKV), NodeTagged(<<1>>)>>,
      <<NodeTagged(LargestTag), NodeTagged(<<1>>)>>,
      <<NodeByUser(User5), NodeByUser(<<1>>)>>,
      <<NodeByUser(UserAnonymous), NodeByUser(<<1>>)>>,
      <<RelationOfMember(RoleWayR), RelationOfMember(<<1>>)>> }

\* Scripts with a back-reference right after the inline string: in the
\* next dataset, after any dataset of the menu, and in the same payload
TwinScripts ==
    {<<a, tw[1], tw[2]>> : a \in DecMenu, tw \in Twins}
        \cup {<<a, NodeTagged(TagKV \o <<1>>)>> : a \in DecMenu}

\* A long run after any dataset of the menu: more inline strings than the
\* table has entries, a reset between them, and more objects than one
\* buffer holds
LongScripts ==
    {<<a, NodeTagged(TagKV), NodeByUser(User5), NodeTagged(<<2>>), <<255>>,
       RelationOfMember(RoleWayR), NodeTagged(LargestTag),
       NodeByUser(UserAnonymous), NodeTagged(Inline(<<97>>, <<98>>)),
       NodeTagged(Inline(<<99>>, <<100>>)), NodeTagged(<<3>>), <<17, 2, 0, 1, 6>>>>
        : a \in DecMenu}

\* The datasets whose payload ends right after the metadata: after the
\* byte 0, after the changeset, after the user
DeletedSets ==
    { <<16, 2, 0>>, <<17, 2, 0>>, <<18, 2, 0>>,
      <<16, 2, 1, 2, 2>> \o User5, <<17, 2, 1, 2, 2>>,
      <<18, 2, 1, 2, 2>> \o UserAnonymous }

\* One of them after any dataset of the menu, and after a node, a way and
\* a relation have left every delta decoder with a value
DeletedScripts ==
    {<<a, d>> : a \in DecMenu, d \in DeletedSets}
        \cup {<<NodeTagged(TagKV), <<17, 2, 0, 1, 6>>, RelationOfMember(RoleWayR), d>>
                 : d \in DeletedSets}

\* The members a relation of the runs below has: each <<type, delta>>, the
\* type as nwr index, the delta of the id
MaxMembers == 3

MemberMenu == {<<0, 1>>, <<1, 2>>, <<2, 3>>, <<1, -1>>}

RECURSIVE MemberLists(_)
MemberLists(n) ==
    IF n = 0 THEN {<<>>}
    ELSE {Append(l, m) : l \in MemberLists(n - 1), m \in MemberMenu}

\* The zigzag encoding of a small number, and back
ZigZag(k) == IF k >= 0 THEN 2 * k ELSE -2 * k - 1

UnZigZag(v) == IF v % 2 = 0 THEN v \div 2 ELSE -((v + 1) \div 2)

\* The bytes of the members ms, every one with its type and the empty role
\* inline: delta, 00, '0' + type, 00
RECURSIVE MemberBytes(_)
MemberBytes(ms) ==
    IF ms = <<>> THEN <<>>
    ELSE <<ZigZag(Head(ms)[2]), 0, 48 + Head(ms)[1], 0>> \o MemberBytes(Tail(ms))

\* The relation dataset with the members ms and nothing else
RelationOf(ms) == <<18, 2, 0, 4 * Len(ms)>> \o MemberBytes(ms)

\* A relation with members of the three types in every order, alone, and
\* after another one with or without a reset between them
MemberScripts ==
    {<<RelationOf(ms)>> : ms \in MemberLists(MaxMembers)}
        \cup {<<RelationOf(a), RelationOf(ms)>>
                 : a \in {<<<<1, 2>>, <<0, 1>>>>, <<<<2, 3>>, <<1, 2>>, <<1, 2>>>>},
                   ms \in MemberLists(MaxMembers)}
        \cup {<<RelationOf(a), <<255>>, RelationOf(ms)>>
                 : a \in {<<<<1, 2>>, <<0, 1>>>>, <<<<2, 3>>, <<1, 2>>, <<1, 2>>>>},
                   ms \in MemberLists(MaxMembers)}

\* Nodes a long way from the one before: lon +(2^30 - 1), the zigzag
\* varint FE FF FF FF 07; lon -2^30, FF FF FF FF 07; and lat likewise
FarNodes ==
    { <<16, 2, 0, 254, 255, 255, 255, 7, 0>>, <<16, 2, 0, 255, 255, 255, 255, 7, 0>>,
      <<16, 2, 0, 0, 254, 255, 255, 255, 7>>, <<16, 2, 0, 0, 255, 255, 255, 255, 7>> }

\* Three of them one after the other, and with a reset before the third
FarScripts ==
    {<<a, b, c>> : a \in FarNodes, b \in FarNodes, c \in FarNodes}
        \cup {<<a, a, <<255>>, a>> : a \in FarNodes}

\* Datasets without strings, by their metadata: id +1, then the byte 0, or
\* the version and the time +0, -1 or -2 with the changeset and the user
\* left out, or the time +1 with the changeset +1 and the user of reference 1;
\* then lon +1 and lat +2, the one node reference +3, or nothing
InfoSets ==
    { <<16, 2, 0, 2, 4>>, <<16, 2, 1, 0, 2, 4>>, <<16, 2, 3, 1, 2, 4>>,
      <<16, 2, 3, 3, 2, 4>>,
      <<16, 2, 1, 2, 2, 1, 2, 4>>,
      <<17, 2, 2, 1, 1, 6>>, <<17, 2, 2, 0, 1, 6>>, <<18, 2, 3, 1>>, <<18, 2, 3, 0>> }

\* One of them first, after a dataset that leaves the time at 0, and after
\* one or two that leave it at 1 or 2 with a changeset and a user
InfoScripts ==
    {<<d>> : d \in InfoSets}
        \cup {<<a, d>> : a \in {NodeTagged(TagKV), NodeByUser(User5)}, d \in InfoSets}
        \cup {<<NodeByUser(User5), NodeByUser(<<1>>), d, e>> : d \in InfoSets, e \in InfoSets}

\* The anonymous user inline, any dataset of the menu, and a node with
\* the user of the reference 1 or 2
AnonymousScripts ==
    {<<NodeByUser(UserAnonymous), a, NodeByUser(<<k>>)>> : a \in DecMenu, k \in {1, 2}}

\* The sequences of datasets the switch is fed with
DecScripts ==
    Scripts(MaxScript) \cup OversizeScripts \cup TwinScripts \cup LongScripts
        \cup DeletedScripts \cup MemberScripts \cup FarScripts \cup InfoScripts
        \cup AnonymousScripts

\* What the head of the loop of decode_data hands to the switch when the
\* next dataset of the script has been read
DatasetGiven(r, ds) ==
    [Reading(IF Head(ds) > ds_jump THEN "marker" ELSE "dataset", Head(ds),
             [r EXCEPT !.inq = Tail(@)])
        EXCEPT !.length = Len(ds) - 1, !.payload = Tail(ds)]

InitDec ==
    /\ \E script \in DecScripts : rd = RD_new(script)
    /\ file = <<>>
    /\ read_types = {"node", "way", "relation"}
    /\ pc = "decoder"
    /\ status = ""
    /\ m_header = Header_new
    /\ m_delta = Deltas_new
    /\ m_buffer = Buffer_new(BufferCapacity, "internal")
    /\ out = <<>>
    /\ header_is_done = FALSE
    /\ log = <<>>
    /\ m_reference_table = RT_new
    /\ inserted = <<>>
    /\ rt_last = [op |-> "new", index |-> 0, err |-> FALSE, bytes |-> <<>>, adds |-> 0]
    /\ buf_last = [op |-> "new", err |-> "", made |-> 0, size |-> 0, calls |-> <<>>, got |-> <<>>]
    /\ env = Env_all_delivered

\* The next dataset of the script goes through the switch
DecNode ==
    /\ pc = "decoder"
    /\ rd.inq # <<>>
    /\ Head(Head(rd.inq)) = ds_node
    /\ \E f \in {DatasetGiven(rd, Head(rd.inq))} : Becomes(Step(f))

DecWay ==
    /\ pc = "decoder"
    /\ rd.inq # <<>>
    /\ Head(Head(rd.inq)) = ds_way
    /\ \E f \in {DatasetGiven(rd, Head(rd.inq))} : Becomes(Step(f))

DecRelation ==
    /\ pc = "decoder"
    /\ rd.inq # <<>>
    /\ Head(Head(rd.inq)) = ds_relation
    /\ \E f \in {DatasetGiven(rd, Head(rd.inq))} : Becomes(Step(f))

DecReset ==
    /\ pc = "decoder"
    /\ rd.inq # <<>>
    /\ Head(Head(rd.inq)) = ds_reset
    /\ \E f \in {DatasetGiven(rd, Head(rd.inq))} : Becomes(Step(f))

\* The script is at its end: the end of decode_data
DecEnd ==
    /\ pc = "decoder"
    /\ rd.inq = <<>>
    /\ Becomes(EndRun(Run))

NextDec == DecNode \/ DecWay \/ DecRelation \/ DecReset \/ DecEnd

SpecDec == InitDec /\ [][NextDec]_vars

(***************************************************************************)
(* The buffer on its own: any sequence of its operations on a buffer of    *)
(* any kind, with items of several sizes, some of them marked as removed.  *)
(***************************************************************************)

\* How many reservations a run makes
MaxItems == 4

\* The padded sizes of the items
ItemSizes == {16, 40}

\* The buffers a run starts with: internal memory with each way of
\* growing, and memory of the caller
FreshBuffers ==
    {Buffer_new(min_capacity, g) : g \in {"no", "yes", "internal"}}
        \cup {Buffer_external(min_capacity)}

InitBuf ==
    /\ m_buffer \in FreshBuffers
    /\ buf_last = [op |-> "new", err |-> "", made |-> 0, size |-> 0, calls |-> <<>>, got |-> <<>>]
    /\ env = Env_all_delivered
    /\ pc = "buffer"
    /\ status = ""
    /\ file = <<>>
    /\ rd = RD_new(<<>>)
    /\ read_types = {}
    /\ m_header = Header_new
    /\ m_delta = Deltas_new
    /\ out = <<>>
    /\ header_is_done = FALSE
    /\ log = <<>>
    /\ m_reference_table = RT_new
    /\ inserted = <<>>
    /\ rt_last = [op |-> "new", index |-> 0, err |-> FALSE, bytes |-> <<>>, adds |-> 0]

\* The operation op has made b of the buffer, with the error err (an
\* exception leaves the buffer as the statements before it made it)
BufferBecomes(op, size, err, b, calls, got) ==
    /\ m_buffer' = b
    /\ buf_last' = [op |-> op, err |-> err,
                    made |-> buf_last.made + (IF op = "reserve" THEN 1 ELSE 0),
                    size |-> size, calls |-> calls, got |-> got]
    /\ UNCHANGED <<rtvars, pc, status, rd, m_header, m_delta, out, header_is_done,
                   read_types, file, log, env>>

\* add_item: reserve_space(item.padded_size()) and the item copied there.
\* An item starts where the one before it ends, padding included: the
\* lengths of the items are multiples of align_bytes.
BufAddItem ==
    /\ pc = "buffer" /\ buf_last.made < MaxItems
    /\ m_buffer.written % align_bytes = 0
    /\ \E size \in ItemSizes, removed \in BOOLEAN :
          \E r \in {reserve_space(m_buffer, size,
                                  [part |-> "object",
                                   obj |-> [id |-> buf_last.made + 1,
                                            removed |-> removed]])} :
             BufferBecomes("reserve", size, r.err, r.b, <<>>, <<>>)

\* reserve_space(4) of a builder adding to the item it is building
BufAddToItem ==
    /\ pc = "buffer" /\ buf_last.made < MaxItems
    /\ Len(m_buffer.chunks) > m_buffer.ncommit
    /\ \E r \in {reserve_space(m_buffer, 4, [part |-> "padding", obj |-> <<>>])} :
          BufferBecomes("reserve", 4, r.err, r.b, <<>>, <<>>)

\* commit(), under its assertion is_aligned()
BufCommit ==
    /\ pc = "buffer" /\ is_aligned(m_buffer)
    /\ BufferBecomes("commit", 0, "", Buffer_commit(m_buffer), <<>>, <<>>)

BufRollback ==
    /\ pc = "buffer"
    /\ BufferBecomes("rollback", 0, "", Buffer_rollback(m_buffer), <<>>, <<>>)

BufClear ==
    /\ pc = "buffer"
    /\ BufferBecomes("clear", 0, "", Buffer_clear(m_buffer), <<>>, <<>>)

BufGrow ==
    /\ pc = "buffer"
    /\ \E size \in {2 * min_capacity} : \E r \in {Buffer_grow(m_buffer, size)} :
          BufferBecomes("grow", size, r.err, r.b, <<>>, <<>>)

\* purge_removed(callback), whose calls of moving_in_buffer are kept, and
\* purge_removed(), the same loop without them
BufPurge ==
    /\ pc = "buffer"
    /\ \E callback \in BOOLEAN : \E r \in {purge_removed(m_buffer)} :
          BufferBecomes(IF callback THEN "purge_callback" ELSE "purge", 0, "", r.b,
                        IF callback THEN r.calls ELSE <<>>, <<>>)

BufDetach ==
    /\ pc = "buffer" /\ has_nested_buffers(m_buffer)
    /\ \E r \in {get_last_nested(m_buffer)} : BufferBecomes("detach", 0, "", r.b, <<>>, <<r.got>>)

NextBuf ==
    \/ BufAddItem
    \/ BufAddToItem
    \/ BufCommit
    \/ BufRollback
    \/ BufClear
    \/ BufGrow
    \/ BufPurge
    \/ BufDetach

SpecBuf == InitBuf /\ [][NextBuf]_vars

\* Reserving, committing, rolling back and growing in buffers that grow in
\* place, asked for with 100 and with 200 bytes: the capacity of 104 is not
\* a power of two
OddBuffers == {Buffer_new(capacity, "yes") : capacity \in {100, 200}}

InitCap ==
    /\ m_buffer \in OddBuffers
    /\ buf_last = [op |-> "new", err |-> "", made |-> 0, size |-> 0, calls |-> <<>>, got |-> <<>>]
    /\ env = Env_all_delivered
    /\ pc = "buffer"
    /\ status = ""
    /\ file = <<>>
    /\ rd = RD_new(<<>>)
    /\ read_types = {}
    /\ m_header = Header_new
    /\ m_delta = Deltas_new
    /\ out = <<>>
    /\ header_is_done = FALSE
    /\ log = <<>>
    /\ m_reference_table = RT_new
    /\ inserted = <<>>
    /\ rt_last = [op |-> "new", index |-> 0, err |-> FALSE, bytes |-> <<>>, adds |-> 0]

\* add_item of an item of more bytes than twice the capacity has left
BigItemSizes == {240}

BufAddBigItem ==
    /\ pc = "buffer" /\ buf_last.made < MaxItems
    /\ m_buffer.written % align_bytes = 0
    /\ \E size \in BigItemSizes :
          \E r \in {reserve_space(m_buffer, size,
                                  [part |-> "object",
                                   obj |-> [id |-> buf_last.made + 1, removed |-> FALSE]])} :
             BufferBecomes("reserve", size, r.err, r.b, <<>>, <<>>)

NextCap ==
    \/ BufAddItem
    \/ BufAddBigItem
    \/ BufAddToItem
    \/ BufCommit
    \/ BufRollback
    \/ BufGrow

SpecCap == InitCap /\ [][NextCap]_vars

(***************************************************************************)
(* Properties of the reference table, of SpecRT.                           *)
(***************************************************************************)

\* The string the decoder is handed by get(index): the first n bytes
\* behind the returned pointer
Fetched(index, n) == Bytes(RT_bytes(m_reference_table, index), 0, n)

\* C6: after N add() calls of strings of at most max_length bytes, get(k)
\* returns the (N-k+1)-th inserted string, for every k from 1 to the
\* smaller of N and number_of_entries, also when the cursor has wrapped.
C6_GetReturnsInserted ==
    \A k \in 1..Min(Len(inserted), number_of_entries) :
        /\ ~RT_get(m_reference_table, k).err
        /\ Fetched(k, Len(inserted[Len(inserted) - k + 1]))
              = inserted[Len(inserted) - k + 1]

\* C6, its case: more strings inserted than the ring has entries, and a
\* get() of the oldest entry of the ring has returned the string inserted
\* number_of_entries insertions ago.
C6_Witness ==
    /\ Len(inserted) = number_of_entries + 2
    /\ rt_last.op = "get" /\ rt_last.index = number_of_entries /\ ~rt_last.err
    /\ Bytes(rt_last.bytes, 0, Len(inserted[3])) = inserted[3]
    /\ inserted[3] # inserted[2]

\* C7: after N insertions get(k) reports an error for every k above the
\* smaller of N and number_of_entries, also for an index within the ring
\* whose slot has not been written yet.  (N insertions and nothing else:
\* no clear() and no oversize string so far.)
C7_ErrorBeyondInserted ==
    rt_last.adds = Len(inserted) =>
        \A k \in (Min(Len(inserted), number_of_entries) + 1)..(number_of_entries + 2) :
            RT_get(m_reference_table, k).err

RECURSIVE Delivered(_)
Delivered(o) ==
    IF o = <<>> THEN <<>> ELSE Head(o).items \o Delivered(Tail(o))

\* The committed objects of the predecessors chained to a buffer, the most
\* deeply nested one first
RECURSIVE Nested(_)
Nested(chain) ==
    IF chain = <<>> THEN <<>>
    ELSE Nested(Tail(chain)) \o Entities(CommittedChunks(Head(chain)))

\* Every object committed so far: delivered, or still in the buffer and
\* its predecessors
AllCommitted(b, o) == Delivered(o) \o Nested(b.next) \o Entities(CommittedChunks(b))

\* The datasets of the file s from offset pos on, framed as the format
\* lays down: a type byte above jump stands alone, any other is followed
\* by a length and that many bytes.  ending: "clean" when the last dataset
\* ends with the file, "truncated" when the file ends inside a length or a
\* payload, "malformed" for a length of more than ten bytes.
Framed(sets, ending) == [sets |-> sets, ending |-> ending]

RECURSIVE Frames(_, _, _)
PayloadFrame(s, pos, sets, length) ==
    IF length.err = "end of buffer" THEN Framed(sets, "truncated")
    ELSE IF length.err # "" THEN Framed(sets, "malformed")
    ELSE IF length.pos + length.val > Len(s) THEN Framed(sets, "truncated")
    ELSE Frames(s, length.pos + length.val,
                Append(sets, [type |-> ByteAt(s, pos),
                              payload |-> Bytes(s, length.pos, length.pos + length.val)]))

Frames(s, pos, sets) ==
    IF pos >= Len(s) THEN Framed(sets, "clean")
    ELSE IF ByteAt(s, pos) > ds_jump
    THEN Frames(s, pos + 1, Append(sets, [type |-> ByteAt(s, pos), payload |-> <<>>]))
    ELSE PayloadFrame(s, pos, sets, decode_varint(s, pos + 1, Len(s)))

FileFrames == Frames(file, header_size, <<>>)

\* The objects the datasets of sets from the i-th on decode to, one after
\* the other, for a consumer asking for the kinds of mask: st has the
\* table and the delta decoders, an empty buffer that grows as needed for
\* each object, the objects so far and the error that ended the decoding
KindOf(type) ==
    CASE type = ds_node -> "node" [] type = ds_way -> "way" [] OTHER -> "relation"

ObjectIn(st, payload, kind) == decode_object(DecodeState(st, payload, kind))

RECURSIVE Objects(_, _, _, _)
ObjectDecoded(sets, i, mask, st, d) ==
    IF d.err # "" THEN [st EXCEPT !.err = d.err]
    ELSE Objects(sets, i + 1, mask,
                 [st EXCEPT !.m_reference_table = d.rt, !.inserted = d.ins,
                            !.m_delta = d.dl, !.objects = Append(@, d.e)])

Objects(sets, i, mask, st) ==
    IF i > Len(sets) THEN st
    ELSE IF sets[i].type = ds_reset
    THEN Objects(sets, i + 1, mask,
                 [st EXCEPT !.m_reference_table = RT_clear(@), !.inserted = <<>>,
                            !.m_delta = Deltas_new])
    ELSE IF sets[i].type = ds_node /\ "node" \in mask
    THEN ObjectDecoded(sets, i, mask, st,
                       NodeBody(ObjectIn(st, sets[i].payload, "node")))
    ELSE IF sets[i].type = ds_way /\ "way" \in mask
    THEN ObjectDecoded(sets, i, mask, st,
                       WayBody(ObjectIn(st, sets[i].payload, "way")))
    ELSE IF sets[i].type = ds_relation /\ "relation" \in mask
    THEN ObjectDecoded(sets, i, mask, st,
                       RelationBody(ObjectIn(st, sets[i].payload, "relation")))
    ELSE Objects(sets, i + 1, mask, st)

\* The objects of the datasets of the file, in file order, of the kinds the
\* consumer asked for
FileObjects ==
    Objects(FileFrames.sets, 1, read_types,
            [m_reference_table |-> RT_new, inserted |-> <<>>, m_delta |-> Deltas_new,
             m_buffer |-> Buffer_new(BufferCapacity, "yes"),
             objects |-> <<>>, err |-> ""]).objects

\* C1: the objects of the buffers handed to the sink, in the order handed
\* over, are the node, way and relation datasets of the file of the kinds
\* asked for, in file order, each once.  (Of a run that ends successfully,
\* and without any reallocation of the input string having moved it from
\* under the cursors.)
C1_DeliveredInFileOrder ==
    (pc = "done" /\ status = "ok" /\ ~rd.moved) => Delivered(out) = FileObjects

\* C4: when the input ends inside a dataset of the body, in its length or
\* in its payload, the run does not end successfully, however the input
\* was cut into chunks.  (For a consumer that asks for some kind, whom the
\* decoder does not leave early, and without any reallocation of the input
\* string having moved it from under the cursors.)
C4_TruncatedNeverClean ==
    (pc = "done" /\ read_types # {} /\ ~rd.moved /\ FileFrames.ending = "truncated")
        => status # "ok"

\* How often the header has been delivered
Headers(o) == Len(SelectSeq(o, LAMBDA x : x.kind = "header"))

BodyTypes == {ds_node, ds_way, ds_relation}

\* The place in the log of the first node, way or relation dataset, 0 when
\* there is none
RECURSIVE FirstBody(_, _)
FirstBody(l, i) ==
    IF i > Len(l) THEN 0 ELSE IF l[i].type \in BodyTypes THEN i ELSE FirstBody(l, i + 1)

\* A dataset has just been dispatched: the last entry of the log is new
Dispatched == Len(log') = Len(log) + 1

\* C2 as amended: the header is delivered at most once on every run,
\* exactly once on every run that has ended successfully or has read a
\* node, way or relation dataset, and before every buffer.
C2_HeaderOnce ==
    /\ Headers(out) <= 1
    /\ ((pc = "done" /\ status = "ok") \/ FirstBody(log, 1) # 0) => Headers(out) = 1
    /\ \A i \in 1..Len(out) :
          out[i].kind = "buffer" => \E j \in 1..(i - 1) : out[j].kind = "header"

\* C2 as stated: on every run the header is delivered exactly once, and on
\* every successful run that emits a buffer, before the first buffer.
C2_HeaderOnEveryRun ==
    /\ pc = "done" => Headers(out) = 1
    /\ (pc = "done" /\ status = "ok") =>
          \A i \in 1..Len(out) :
              out[i].kind = "buffer" => \E j \in 1..(i - 1) : out[j].kind = "header"

\* C2, its case: a successful run that has delivered the header and then
\* two buffers.
C2_Witness ==
    /\ pc = "done" /\ status = "ok"
    /\ Len(out) = 3 /\ out[1].kind = "header"
    /\ out[2].kind = "buffer" /\ out[3].kind = "buffer"

\* The box of a bounding-box payload and the time of a timestamp payload,
\* read off the bytes
RECURSIVE NthZvarint(_, _)
NthZvarint(p, n) ==
    zvarint(p, IF n = 1 THEN 0 ELSE NthZvarint(p, n - 1).pos, Len(p))

BoxIn(p) ==
    <<Location(NthZvarint(p, 1).val, NthZvarint(p, 2).val),
      Location(NthZvarint(p, 3).val, NthZvarint(p, 4).val)>>

TimeIn(p) == to_iso(zvarint(p, 0, Len(p)).val)

\* The header that reflects the first n entries of the log
RECURSIVE HeaderOf(_, _)
HeaderOf(l, n) ==
    IF n = 0 THEN [Header_new EXCEPT !.has_multiple_object_versions = (ByteAt(file, 5) = 99)]
    ELSE IF l[n].type = ds_bounding_box
    THEN [HeaderOf(l, n - 1) EXCEPT !.boxes = Append(@, BoxIn(l[n].payload))]
    ELSE IF l[n].type = ds_timestamp
    THEN [HeaderOf(l, n - 1) EXCEPT !.o5m_timestamp = TimeIn(l[n].payload),
                                    !.timestamp = TimeIn(l[n].payload)]
    ELSE HeaderOf(l, n - 1)

\* How many entries of the log come before the first node, way or
\* relation dataset
BeforeBody(l) == IF FirstBody(l, 1) = 0 THEN Len(l) ELSE FirstBody(l, 1) - 1

\* C3: the header is published when the first node, way or relation
\* dataset is read, whether or not the consumer asked for its kind, or at
\* the clean end of the input when there is no such dataset, and not
\* before; the published header reflects every bounding-box and timestamp
\* dataset read before that.
C3_HeaderPublication ==
    /\ header_is_done <=> (FirstBody(log, 1) # 0 \/ (pc = "done" /\ status = "ok"))
    /\ header_is_done =>
          \E i \in 1..Len(out) :
              /\ out[i].kind = "header"
              /\ out[i].header = HeaderOf(log, BeforeBody(log))

\* C3, its case: a bounding box was read, then a node the consumer did
\* not ask for, and the header published has the box.
C3_Witness ==
    /\ Len(log) = 2 /\ log[1].type = ds_bounding_box /\ log[2].type = ds_node
    /\ "node" \notin read_types
    /\ header_is_done
    /\ Len(out) = 1 /\ Len(out[1].header.boxes) = 1

\* C5: when the decoding of a node, way or relation payload fails, the
\* run is over with that error as its status, the objects committed so far
\* are what they were, the failed one not among them, and nothing happens
\* after the end of a run.
C5_FailedObjectNotCommitted ==
    [][ /\ (Dispatched /\ log'[Len(log')].type \in BodyTypes /\ status' \notin {"", "ok"})
           => /\ pc' = "done"
              /\ AllCommitted(m_buffer', out') = AllCommitted(m_buffer, out)
        /\ pc = "done" => UNCHANGED vars ]_vars

\* C5, its case: a node was committed, and the decoding of the next
\* payload has failed.
C5_Witness ==
    /\ pc = "done"
    /\ status = "premature end of file while parsing object metadata"
    /\ Len(log) = 2 /\ log[2].type = ds_node
    /\ Len(AllCommitted(m_buffer, out)) = 1

\* Every one of the nine delta decoders holds 0
AllZero(dl) ==
    /\ dl.id = 0 /\ dl.timestamp = 0 /\ dl.changeset = 0
    /\ dl.lon = 0 /\ dl.lat = 0 /\ dl.way_node_id = 0
    /\ dl.high.lon = 0 /\ dl.high.lat = 0
    /\ \A i \in 1..3 : dl.member_ids[i] = 0

\* C9: when a reset dataset has been read, all nine delta decoders hold
\* 0, whatever was decoded before; no other marker above jump changes any
\* of them.
C9_ResetZeroesDeltas ==
    [][ Dispatched =>
          /\ log'[Len(log')].type = ds_reset => AllZero(m_delta')
          /\ (log'[Len(log')].type > ds_jump /\ log'[Len(log')].type # ds_reset)
                => m_delta' = m_delta ]_vars

\* C9, its case: a node with coordinates was decoded, then a reset
\* dataset was read, and the decoders hold 0.
C9_Witness ==
    /\ Len(log) = 2 /\ log[1].type = ds_node /\ log[2].type = ds_reset
    /\ \E i \in 1..Len(AllCommitted(m_buffer, out)) :
          /\ AllCommitted(m_buffer, out)[i].id # 0
          /\ AllCommitted(m_buffer, out)[i].loc[1] \notin {0, undefined_coordinate}
    /\ AllZero(m_delta)

\* C10: after a reset dataset the next get() on the reference table
\* reports an error for every index, whatever was inserted before.
C10_GetErrorsAfterReset ==
    (log # <<>> /\ log[Len(log)].type = ds_reset) =>
        \A index \in 0..(number_of_entries + 1) : RT_get(m_reference_table, index).err

\* The input begins with FF E0 04 'o' '5', then 'm' or 'c', then '2'
HeaderGood(f) ==
    /\ Len(f) >= header_size
    /\ SubSeq(f, 1, 5) = <<255, 224, 4, 111, 53>>
    /\ f[6] \in {109, 99}
    /\ f[7] = 50

HeaderErrors == {"wrong header magic", "file too short (incomplete header info)"}

\* C15: once the header has been looked at, the run of an input that does
\* not begin with the seven bytes of a header, one of fewer than seven
\* bytes among them, has failed with a header error, and no object and no
\* buffer has been emitted; for an input that does begin with them, the
\* header has has_multiple_object_versions true for 'c' and false for 'm'.
C15_HeaderChecked ==
    pc # "header" =>
        IF HeaderGood(file)
        THEN /\ m_header.has_multiple_object_versions = (file[6] = 99)
             /\ \A i \in 1..Len(out) :
                   out[i].kind = "header"
                      => out[i].header.has_multiple_object_versions = (file[6] = 99)
        ELSE /\ pc = "done"
             /\ status \in HeaderErrors
             /\ Len(file) < header_size => status = "file too short (incomplete header info)"
             /\ AllCommitted(m_buffer, out) = <<>>
             /\ out = <<>>

\* C15, its cases: an input of three bytes has failed; an input with the
\* version byte '1' has failed; a change file has delivered its header and
\* a node.
C15_WitnessShort == pc = "done" /\ Len(file) = 3 /\ status \in HeaderErrors

C15_Witness ==
    pc = "done" /\ file = [FileHeader EXCEPT ![7] = 49] \o <<16, 2, 2, 0>>
        /\ status = "wrong header magic"

C15_WitnessChangeFile ==
    /\ pc = "done" /\ status = "ok"
    /\ SubSeq(file, 1, header_size) = ChangeFileHeader
    /\ Len(out) = 2
    /\ out[1].kind = "header" /\ out[1].header.has_multiple_object_versions
    /\ Len(Delivered(out)) = 1

\* C14: the datasets the dispatcher reads are the datasets of the file: a
\* type byte above jump stands for one byte, any other is followed by one
\* length and exactly that many bytes of payload, and the next type byte
\* is the byte after them, whatever the payload decoder has read.  (Without
\* any reallocation of the input string having moved it from under the
\* cursors.)
C14_FramedAsTheFile ==
    ~rd.moved =>
        /\ Len(log) <= Len(FileFrames.sets)
        /\ log = SubSeq(FileFrames.sets, 1, Len(log))

\* The step has read a node, way or relation dataset of a kind the
\* consumer has not asked for
ExcludedGiven ==
    /\ Dispatched
    /\ log'[Len(log')].type \in BodyTypes
    /\ KindOf(log'[Len(log')].type) \notin read_types

\* After the step the cursor is at the start of the payload plus length
PastPayload ==
    \E uv \in UBOutcomes(rd) : \E f \in {ReadDataset(rd, uv)} :
        f.kind = "dataset" /\ rd' = [f.rd EXCEPT !.m_data = @ + f.length]

\* No object has come into a buffer or to the sink, and none is being built
NothingAdded ==
    /\ AllCommitted(m_buffer', out') = AllCommitted(m_buffer, out)
    /\ Len(m_buffer'.chunks) = m_buffer'.ncommit

\* C18 as amended: when the consumer has asked for some kinds but not for
\* the kind of a dataset, the dataset moves the cursor past its whole
\* payload and no object is added to any buffer.
C18_ExcludedKindSkipped ==
    [][(ExcludedGiven /\ read_types # {}) => (PastPayload /\ NothingAdded)]_vars

\* C18 as stated: when the consumer has not asked for the kind of a
\* dataset, the dataset moves the cursor past its whole payload and no
\* object is added to any buffer.
C18_AnyExcludedKindSkipped ==
    [][ExcludedGiven => (PastPayload /\ NothingAdded)]_vars

\* C18, its case: for a consumer of ways and relations the node of the
\* file was passed over, and the way after it was read and delivered.
C18_Witness ==
    /\ pc = "done" /\ status = "ok" /\ ~rd.moved
    /\ read_types = {"way", "relation"}
    /\ Len(log) = 2 /\ log[1].type = ds_node /\ log[2].type = ds_way
    /\ log[1].payload = <<2, 0, 2, 4, 0, 107, 0, 118, 0>>
    /\ Len(Delivered(out)) = 1 /\ Delivered(out)[1].kind = "way"

\* C19: for a consumer that asks for no kind, once the header has been
\* published the run has ended successfully; the dataset that made the
\* header be published, if one did, is the last that was read; and no
\* object has been committed or delivered at any time.
C19_NothingAskedFor ==
    read_types = {} =>
        /\ AllCommitted(m_buffer, out) = <<>>
        /\ \A i \in 1..Len(out) : out[i].kind = "header"
        /\ header_is_done =>
              /\ pc = "done"
              /\ status = "ok"
              /\ Headers(out) = 1
              /\ FirstBody(log, 1) \in {0, Len(log)}

\* C19, its case: of a file with two nodes, the first was read, the header
\* was published and the run ended with the second node unread.
C19_Witness ==
    /\ read_types = {} /\ header_is_done /\ pc = "done" /\ status = "ok"
    /\ ~rd.moved
    /\ Len(FileFrames.sets) = 2
    /\ FileFrames.sets[2].type = ds_node
    /\ Len(log) = 1 /\ log[1].type = ds_node
    /\ Len(out) = 1

(***************************************************************************)
(* Properties of the switch and of the payload decoders, of SpecDec.       *)
(***************************************************************************)

\* The object committed last
LastCommitted(b, o) == AllCommitted(b, o)[Len(AllCommitted(b, o))]

\* The dataset that went through the switch last, as type byte and payload
LastGiven(l) == <<l[Len(l)].type>> \o l[Len(l)].payload

\* Index k of the table rt stands for the k-th last of the strings ins
CountsInserted(rt, ins) ==
    \A k \in 1..Min(Len(ins), number_of_entries) :
        /\ ~RT_get(rt, k).err
        /\ Bytes(RT_bytes(rt, k), 0, Len(ins[Len(ins) - k + 1])) = ins[Len(ins) - k + 1]

\* C11: decoding a tag of more than max_length bytes leaves the cursor and
\* every entry of the table as they were, the node decoded still gets the
\* tag, and after every dataset the indexes of the table count the strings
\* that were inserted, the long one not among them.
C11_OversizeNotInserted ==
    [][ Dispatched =>
          /\ CountsInserted(m_reference_table', inserted')
          /\ LastGiven(log') = NodeTagged(OversizeTag)
                => /\ status' = ""
                   /\ m_reference_table'.cur = m_reference_table.cur
                   /\ m_reference_table'.tab = m_reference_table.tab
                   /\ LastCommitted(m_buffer', out').tags
                         = << <<<<107>>, Fill(max_length - 1, 65)>> >> ]_vars

\* C11, its case: a tag was interned, a node with a long tag decoded, and
\* the back-reference 1 of the next node has got the tag interned first.
C11_Witness ==
    /\ Len(log) = 3 /\ status = ""
    /\ LastGiven(SubSeq(log, 1, 1)) = NodeTagged(TagKV)
    /\ LastGiven(SubSeq(log, 1, 2)) = NodeTagged(OversizeTag)
    /\ LastGiven(log) = NodeTagged(<<1>>)
    /\ Len(AllCommitted(m_buffer, out)[2].tags[1][2]) = max_length - 1
    /\ LastCommitted(m_buffer, out).tags = << <<<<107>>, <<118>>>> >>

\* What an object has got from string pairs: the tags, the user, and the
\* type and role of every member
StringFields(e) ==
    [tags |-> e.tags, uid |-> e.uid, user |-> e.user,
     roles |-> [i \in 1..Len(e.members) |-> <<e.members[i][1], e.members[i][3]>>]]

\* C12: a dataset with the back-reference 1, decoded right after the
\* dataset that has an inline string pair of at most max_length bytes in
\* the same place, gets the same tag, the same uid and user name, the same
\* member type and role, and leaves the table and its cursor as they were;
\* so does a back-reference 1 that follows the inline pair in one payload.
C12_ReferenceEqualsInline ==
    [][ (Dispatched /\ Len(log') >= 2) =>
          /\ <<LastGiven(log), LastGiven(log')>> \in Twins
                => /\ status' = ""
                   /\ StringFields(LastCommitted(m_buffer', out'))
                         = StringFields(LastCommitted(m_buffer, out))
                   /\ m_reference_table' = m_reference_table
          /\ LastGiven(log') = NodeTagged(TagKV \o <<1>>)
                => /\ status' = ""
                   /\ LastCommitted(m_buffer', out').tags
                         = << <<<<107>>, <<118>>>>, <<<<107>>, <<118>>>> >>
                   /\ m_reference_table' = RT_add(m_reference_table, <<107, 0, 118, 0>>) ]_vars

\* C12, its case: the tag of exactly max_length bytes was decoded inline
\* when the table had a string already, and the node with the
\* back-reference 1 has got the same tag.
C12_Witness ==
    /\ Len(log) = 3 /\ status = ""
    /\ LastGiven(SubSeq(log, 1, 1)) = RelationOfMember(RoleWayR)
    /\ LastGiven(SubSeq(log, 1, 2)) = NodeTagged(LargestTag)
    /\ LastGiven(log) = NodeTagged(<<1>>)
    /\ Len(inserted) = 2 /\ Len(inserted[2]) = max_length
    /\ LastCommitted(m_buffer, out).tags = << <<<<107>>, Fill(max_length - 3, 66)>> >>

\* The string fields of the objects of a list
StringsOf(l) == [i \in 1..Len(l) |-> StringFields(l[i])]

\* C13: the user name, the tags and the member roles of an object that has
\* been committed stay as they are through every later step: inline
\* strings written over entries of the table, resets, the growing of the
\* buffer and its being split and handed on.
C13_CommittedStringsStay ==
    [][ /\ Len(AllCommitted(m_buffer, out)) <= Len(AllCommitted(m_buffer', out'))
        /\ SubSeq(StringsOf(AllCommitted(m_buffer', out')), 1,
                  Len(AllCommitted(m_buffer, out)))
              = StringsOf(AllCommitted(m_buffer, out)) ]_vars

\* C13, its case: after objects with strings were committed a reset cleared
\* the table, the table wrapped round and buffers were handed on; the
\* objects still have their tag, their user and their role.
C13_Witness ==
    /\ Len(log) = 12 /\ status = ""
    /\ LastGiven(SubSeq(log, 1, 1)) = <<16, 2, 0>>
    /\ Len(inserted) > number_of_entries
    /\ Len(out) >= 4
    /\ AllCommitted(m_buffer, out)[2].tags = << <<<<107>>, <<118>>>> >>
    /\ AllCommitted(m_buffer, out)[3].uid = 5
    /\ AllCommitted(m_buffer, out)[3].user = <<117>>
    /\ AllCommitted(m_buffer, out)[4].tags = << <<<<107>>, <<118>>>> >>
    /\ AllCommitted(m_buffer, out)[5].members[1][3] = <<114>>
    /\ AllCommitted(m_buffer, out)[8].tags = << <<<<97>>, <<98>>>> >>

\* C16: a node, way or relation whose payload ends right after the
\* metadata is committed as a deleted object: not visible, without tags,
\* node references and members, a node with the undefined location; and
\* the delta decoders of lon, lat, way nodes and member ids are as before.
C16_DeletedObject ==
    [][ (Dispatched /\ LastGiven(log') \in DeletedSets) =>
          /\ status' = ""
          /\ Len(AllCommitted(m_buffer', out')) = Len(AllCommitted(m_buffer, out)) + 1
          /\ LastCommitted(m_buffer', out').kind = KindOf(Head(LastGiven(log')))
          /\ ~LastCommitted(m_buffer', out').visible
          /\ LastCommitted(m_buffer', out').tags = <<>>
          /\ LastCommitted(m_buffer', out').refs = <<>>
          /\ LastCommitted(m_buffer', out').members = <<>>
          /\ LastCommitted(m_buffer', out').loc
                = <<undefined_coordinate, undefined_coordinate>>
          /\ m_delta'.lon = m_delta.lon
          /\ m_delta'.lat = m_delta.lat
          /\ m_delta'.high = m_delta.high
          /\ m_delta'.way_node_id = m_delta.way_node_id
          /\ m_delta'.member_ids = m_delta.member_ids ]_vars

\* C16, its case: a node with version, timestamp, changeset and user and
\* nothing after them was committed as deleted when every delta decoder
\* had a value from the objects before.
C16_Witness ==
    /\ Len(log) = 4 /\ status = ""
    /\ LastGiven(log) = <<16, 2, 1, 2, 2>> \o User5
    /\ ~LastCommitted(m_buffer, out).visible
    /\ LastCommitted(m_buffer, out).version = 1
    /\ LastCommitted(m_buffer, out).user = <<117>>
    /\ m_delta.lon # 0 /\ m_delta.lat # 0 /\ m_delta.way_node_id # 0
    /\ m_delta.member_ids # <<0, 0, 0>>

\* The members <<type, delta>> of the payload of a relation made by
\* RelationOf, read off its bytes by their places
GivenMembers(payload) ==
    [j \in 1..((Len(payload) - 3) \div 4) |->
        <<payload[4 * j + 2] - 48, UnZigZag(payload[4 * j])>>]

PlainRelations ==
    {Tail(RelationOf(ms)) : ms \in UNION {MemberLists(n) : n \in 1..MaxMembers}}

\* The members of the relations of the log l since the last reset
RECURSIVE MembersSince(_)
MembersSince(l) ==
    IF l = <<>> \/ l[Len(l)].type = ds_reset THEN <<>>
    ELSE MembersSince(SubSeq(l, 1, Len(l) - 1))
            \o (IF l[Len(l)].type = ds_relation THEN GivenMembers(l[Len(l)].payload)
                ELSE <<>>)

\* The sum of the deltas of the members of type T among ms
RECURSIVE SumOfType(_, _)
SumOfType(ms, T) ==
    IF ms = <<>> THEN 0
    ELSE SumOfType(Tail(ms), T) + (IF Head(ms)[1] = T THEN Head(ms)[2] ELSE 0)

\* C17: the id of a member of type T of a relation is the sum of the id
\* deltas of the members of type T read since the last reset, this member
\* the last of them, whatever members of the other types came between
\* them and in whatever order.
C17_MemberIdsByType ==
    [][ (/\ Dispatched
         /\ log'[Len(log')].type = ds_relation
         /\ \A i \in 1..Len(log') :
               log'[i].type = ds_relation => log'[i].payload \in PlainRelations) =>
          /\ status' = ""
          /\ Len(LastCommitted(m_buffer', out').members)
                = Len(GivenMembers(log'[Len(log')].payload))
          /\ \A j \in 1..Len(LastCommitted(m_buffer', out').members) :
                /\ LastCommitted(m_buffer', out').members[j][1]
                      = GivenMembers(log'[Len(log')].payload)[j][1]
                /\ LastCommitted(m_buffer', out').members[j][2]
                      = SumOfType(SubSeq(MembersSince(log'), 1,
                                         Len(MembersSince(log))  + j),
                                  GivenMembers(log'[Len(log')].payload)[j][1]) ]_vars

\* C17, its case: after a relation with a relation member and two way
\* members, the members way +2, node +1, relation +3 of the next relation
\* have the ids 4 + 2, 1 and 3 + 3.
C17_Witness ==
    /\ Len(log) = 2 /\ status = ""
    /\ LastGiven(SubSeq(log, 1, 1)) = RelationOf(<<<<2, 3>>, <<1, 2>>, <<1, 2>>>>)
    /\ LastGiven(log) = RelationOf(<<<<1, 2>>, <<0, 1>>, <<2, 3>>>>)
    /\ LastCommitted(m_buffer, out).members
          = <<<<1, 6, <<>>>>, <<0, 1, <<>>>>, <<2, 6, <<>>>>>>
    /\ m_delta.member_ids = <<1, 6, 6>>

\* C20: a node whose lon or lat, the running value with the delta of the
\* node added, is outside the range of 32 bits ends the run with an error
\* and is not committed.
C20_FarNodeRejected ==
    [][ (/\ Dispatched
         /\ LastGiven(log') \in FarNodes
         /\ (m_delta'.high.lon # 0 \/ m_delta'.high.lat # 0)) =>
          /\ status' \notin {"", "ok"}
          /\ AllCommitted(m_buffer', out') = AllCommitted(m_buffer, out) ]_vars

\* What the decoder does with such a node: it goes on, and the node is
\* committed with the low 32 bits of the running value as its coordinate.
C20_FarNodeWrapped ==
    [][ (/\ Dispatched
         /\ LastGiven(log') \in FarNodes
         /\ (m_delta'.high.lon # 0 \/ m_delta'.high.lat # 0)) =>
          /\ status' = ""
          /\ LastCommitted(m_buffer', out').loc = <<m_delta'.lon, m_delta'.lat>> ]_vars

\* The third node eastwards of three: the running value of lon is
\* 3 * (2^30 - 1) = 2^32 - 1073741827, and the node has lon -1073741827.
C20_WrappedEast ==
    /\ Len(log) = 3 /\ status = ""
    /\ \A i \in 1..3 : log[i].payload = <<2, 0, 254, 255, 255, 255, 7, 0>>
    /\ m_delta.high.lon = 1 /\ m_delta.lon = -1073741827
    /\ AllCommitted(m_buffer, out)[2].loc = <<2147483646, 0>>
    /\ AllCommitted(m_buffer, out)[3].loc = <<-1073741827, 0>>

(***************************************************************************)
(* Properties of the buffer, of SpecBuf.                                   *)
(***************************************************************************)

\* The buffer under test and its predecessors, the newest first
Chain == <<m_buffer>> \o m_buffer.next

\* C21: whatever operations were applied, committed <= written <= capacity
\* holds in the buffer and in every predecessor of its chain.
C21_CommittedWrittenCapacity ==
    pc = "buffer" =>
        \A i \in 1..Len(Chain) :
            /\ 0 <= Chain[i].committed
            /\ Chain[i].committed <= Chain[i].written
            /\ Chain[i].written <= Chain[i].capacity

\* C21, its case: a buffer that was split twice, with committed bytes and
\* bytes reserved after them.
C21_Witness ==
    /\ pc = "buffer"
    /\ Len(m_buffer.next) = 2
    /\ m_buffer.committed = 40 /\ m_buffer.written = 56
    /\ m_buffer.next[1].written = 40 /\ m_buffer.next[2].committed = 40

\* The areas of the items of a sequence of items, one after the other
RECURSIVE AreasOf(_)
AreasOf(items) == IF items = <<>> THEN <<>> ELSE Head(items).areas \o AreasOf(Tail(items))

\* Every item the bytes written so far hold, the pending ones included
AllItems(b) == ItemsFrom(b.chunks, 1, 0, b.written)

\* C22: iterating over a buffer yields exactly the items in the bytes
\* [0, committed): what was reserved and not committed is not yielded (a
\* reservation leaves the yielded items as they are, in the buffer or, when
\* it splits the buffer, in the buffer split off), commit makes the pending
\* items visible after the ones already there, and rollback drops the
\* pending bytes (written = committed) and leaves the committed items as
\* they are.
C22_IterationIsTheCommitted ==
    [][pc = "buffer" =>
        LET before == Iterate(m_buffer)
            after  == Iterate(m_buffer')
        IN  /\ AreasOf(after) = CommittedChunks(m_buffer')
            /\ SumSz(CommittedChunks(m_buffer')) = m_buffer'.committed
            /\ buf_last'.op = "reserve" =>
                  IF Len(m_buffer'.next) > Len(m_buffer.next)
                  THEN /\ Iterate(m_buffer'.next[1]) = before
                       /\ after = <<>>
                  ELSE after = before
            /\ buf_last'.op = "commit" =>
                  /\ after = AllItems(m_buffer)
                  /\ SubSeq(after, 1, Len(before)) = before
            /\ buf_last'.op = "rollback" =>
                  /\ after = before
                  /\ m_buffer'.committed = m_buffer.committed
                  /\ m_buffer'.written = m_buffer'.committed
                  /\ AllItems(m_buffer') = after
    ]_vars

\* An item of 16 bytes with 8 bytes added was committed and is yielded; the
\* item reserved after it was rolled back
C22_Witness ==
    /\ pc = "buffer"
    /\ buf_last.op = "rollback" /\ buf_last.made = 4
    /\ m_buffer.next = <<>>
    /\ m_buffer.committed = 24 /\ m_buffer.written = 24
    /\ Len(Iterate(m_buffer)) = 1
    /\ Iterate(m_buffer)[1].obj.id = 1 /\ Iterate(m_buffer)[1].size = 24

\* C23: the bytes committed are a multiple of the alignment: commit() makes
\* them so, and clear, purge_removed, growing and splitting keep them so,
\* in the buffer and in every buffer of its chain.
C23_CommittedAligned ==
    pc = "buffer" =>
        \A i \in 1..Len(Chain) : Chain[i].committed % align_bytes = 0

\* An item of 40 bytes with 8 bytes added was committed and split off by the
\* item reserved after it, which was committed as well
C23_Witness ==
    /\ pc = "buffer"
    /\ buf_last.op = "commit"
    /\ Len(m_buffer.next) = 1
    /\ m_buffer.next[1].committed = 48
    /\ m_buffer.committed = 40

\* The buffer cannot grow: its memory is the caller's, or it is not to grow
CannotGrow(b) == ~b.memory \/ b.auto_grow = "no"

NotRemoved(item) == ~item.obj.removed
Survivors(b) == SelectSeq(Iterate(b), NotRemoved)

\* The padded sizes of the first n items of a sequence, summed
RECURSIVE SizeOfFirst(_, _)
SizeOfFirst(items, n) ==
    IF n = 0 THEN 0 ELSE items[n].size + SizeOfFirst(items, n - 1)

PurgeStep == pc = "buffer" /\ buf_last'.op \in {"purge", "purge_callback"}

\* C26: purge_removed keeps the committed items that are not removed, in
\* the order they had, one after the other from offset 0 and byte for byte
\* as they were: the new offsets grow with the old ones and are not beyond
\* them, and committed ends as the sum of the padded sizes of the items
\* that stay.
C26_PurgeKeepsTheOthers ==
    [][PurgeStep =>
        LET stay  == Survivors(m_buffer)
            after == Iterate(m_buffer')
        IN  /\ Len(after) = Len(stay)
            /\ \A k \in 1..Len(stay) :
                  /\ after[k].obj = stay[k].obj
                  /\ after[k].areas = stay[k].areas
                  /\ after[k].size = stay[k].size
                  /\ after[k].at = SizeOfFirst(stay, k - 1)
                  /\ after[k].at <= stay[k].at
                  /\ \A j \in 1..(k - 1) :
                        /\ stay[j].at < stay[k].at
                        /\ after[j].at < after[k].at
            /\ m_buffer'.committed = SizeOfFirst(stay, Len(stay))
            /\ m_buffer.committed # 0 => m_buffer'.written = m_buffer'.committed
            /\ m_buffer'.capacity = m_buffer.capacity /\ m_buffer'.next = m_buffer.next
    ]_vars

\* Of three items of 16 bytes the first was removed: the other two are at
\* the offsets 0 and 16
C26_Witness ==
    /\ pc = "buffer"
    /\ buf_last.op = "purge"
    /\ m_buffer.committed = 32
    /\ Len(Iterate(m_buffer)) = 2
    /\ Iterate(m_buffer)[1].obj.id = 2 /\ Iterate(m_buffer)[1].at = 0
    /\ Iterate(m_buffer)[2].obj.id = 3 /\ Iterate(m_buffer)[2].at = 16

\* The calls of moving_in_buffer that are due for the items from the k-th
\* on of the ones that stay: one for each whose offset changes
RECURSIVE CallsDue(_, _)
CallsDue(items, k) ==
    IF k > Len(items) THEN <<>>
    ELSE (IF items[k].at # SizeOfFirst(items, k - 1)
          THEN <<<<items[k].at, SizeOfFirst(items, k - 1)>>>>
          ELSE <<>>) \o CallsDue(items, k + 1)

\* C27: purge_removed(callback) calls moving_in_buffer once for each item
\* that stays and whose offset changes, with its old and its new offset, the
\* new one not beyond the old one, in the order of the old offsets; it does
\* not call it for an item that is removed or that stays where it is.
C27_CallbackForTheMoved ==
    [][(pc = "buffer" /\ buf_last'.op = "purge_callback") =>
        LET stay  == Survivors(m_buffer)
            after == Iterate(m_buffer')
            calls == buf_last'.calls
        IN  /\ calls = CallsDue(stay, 1)
            /\ \A c \in 1..Len(calls) :
                  /\ calls[c][2] < calls[c][1]
                  /\ \E k \in 1..Len(stay) :
                        /\ stay[k].at = calls[c][1]
                        /\ after[k].at = calls[c][2]
                  /\ \A d \in 1..(c - 1) : calls[d][1] < calls[c][1]
    ]_vars

\* Of three items of 16 bytes the second was removed: one call, for the
\* third, and none for the first, which stays at offset 0
C27_Witness ==
    /\ pc = "buffer"
    /\ buf_last.op = "purge_callback"
    /\ buf_last.calls = << <<32, 16>> >>
    /\ Len(Iterate(m_buffer)) = 2
    /\ Iterate(m_buffer)[1].obj.id = 1 /\ Iterate(m_buffer)[2].obj.id = 3

\* The numbers of the items a buffer yields: the items are numbered as
\* they are reserved
IdsOf(b) == LET items == Iterate(b) IN {items[k].obj.id : k \in 1..Len(items)}

\* C28: get_last_nested takes the oldest buffer out of the chain and
\* returns it: what it holds was committed before what any buffer left in
\* the chain holds, so that taking out one after the other yields the
\* buffers in the order in which they were split off; the chain is shorter
\* by that one buffer, and the top buffer is as it was (capacity, written,
\* committed, what it holds).
C28_OldestFirst ==
    [][(pc = "buffer" /\ buf_last'.op = "detach") =>
        LET got == IdsOf(buf_last'.got[1])
        IN  /\ Len(buf_last'.got) = 1
            /\ buf_last'.got[1] = m_buffer.next[Len(m_buffer.next)]
            /\ buf_last'.got[1].next = <<>>
            /\ got # {}
            /\ Len(m_buffer'.next) = Len(m_buffer.next) - 1
            /\ \A i \in 1..Len(m_buffer'.next) :
                  /\ m_buffer'.next[i] = m_buffer.next[i]
                  /\ \A a \in got, b \in IdsOf(m_buffer'.next[i]) : a < b
            /\ \A a \in got, b \in IdsOf(m_buffer') : a < b
            /\ [m_buffer' EXCEPT !.next = m_buffer.next] = m_buffer
    ]_vars

\* Two buffers were split off, the first with item 1 and the second with
\* item 2; the one with item 1 was taken out, the one with item 2 is left
C28_Witness ==
    /\ pc = "buffer"
    /\ buf_last.op = "detach"
    /\ IdsOf(buf_last.got[1]) = {1}
    /\ Len(m_buffer.next) = 1
    /\ IdsOf(m_buffer.next[1]) = {2}
    /\ m_buffer.written = 40

(***************************************************************************)
(* Properties of the input side and of the masks, of Spec.                 *)
(***************************************************************************)

\* The bytes between the read cursor and the end cursor
Window(r) == Bytes(r.mem, r.m_data, r.m_end)

\* The bytes of the file received so far: all but the ones in the queue
Received(r) == SubSeq(file, 1, Len(file) - QueuedBytes(r.inq))

\* The call of ensure_bytes_available that made e of r has kept the input:
\* between the cursors are the bytes that were there before it, followed by
\* the bytes received during it
KeepsInput(r, e) ==
    Window(e.rd) = Window(r) \o SubSeq(file, Len(Received(r)) + 1, Len(Received(e.rd)))

\* The calls of ensure_bytes_available of one iteration of the loop of
\* decode_data, each with the input side it is called on
CallsOfIteration(r0, uv) ==
    LET e1 == ensure_bytes_available(r0, 1, uv)
        f  == TypeRead(e1)
        e2 == ensure_bytes_available(f.rd, max_varint_length, uv)
        g  == LengthRead(f, e2.rd)
        e3 == ensure_bytes_available(g.rd, g.length, uv)
    IN  <<[on |-> r0, e |-> e1]>>
           \o (IF f.kind = "dataset" THEN <<[on |-> f.rd, e |-> e2]>> ELSE <<>>)
           \o (IF f.kind = "dataset" /\ g.kind = "dataset"
               THEN <<[on |-> g.rd, e |-> e3]>> ELSE <<>>)

\* C29: after every call of ensure_bytes_available, whatever it returns,
\* the bytes between the read cursor and the end cursor are the bytes of the
\* input received so far and not yet consumed, in their order: the ones that
\* were there before the call, followed by the ones received during it.  So
\* the length read after the call of line 544 is the one that follows the
\* type byte in the input, however the input is cut into chunks.
C29_CursorsKeepTheInput ==
    pc = "data" =>
        \A uv \in UBOutcomes(rd) :
            \A i \in 1..Len(CallsOfIteration(rd, uv)) :
                KeepsInput(CallsOfIteration(rd, uv)[i].on, CallsOfIteration(rd, uv)[i].e)

\* What the decoders make of the datasets of the file for a consumer asking
\* for the kinds of mask: the objects, and the error that ended the decoding
ObjectsFor(mask) ==
    Objects(FileFrames.sets, 1, mask,
            [m_reference_table |-> RT_new, inserted |-> <<>>, m_delta |-> Deltas_new,
             m_buffer |-> Buffer_new(BufferCapacity, "yes"),
             objects |-> <<>>, err |-> ""])

\* The objects of one kind among objects, in their order
RECURSIVE OfKind(_, _)
OfKind(objects, kind) ==
    IF objects = <<>> THEN <<>>
    ELSE (IF Head(objects).kind = kind THEN <<Head(objects)>> ELSE <<>>)
            \o OfKind(Tail(objects), kind)

AllKinds == {"node", "way", "relation"}

\* C30: the objects of a kind the consumer asked for are delivered as they
\* are to a consumer asking for every kind (ids, metadata, coordinates,
\* references, members, tags): leaving out other kinds does not change
\* them.  (Of a run that ends successfully and delivers what the decoders
\* make of the file for its mask, for a file that decodes without error
\* for a consumer asking for every kind.)
C30_SameForEveryMask ==
    (/\ pc = "done" /\ status = "ok" /\ ~rd.moved
     /\ Delivered(out) = FileObjects
     /\ ObjectsFor(AllKinds).err = "")
        => \A kind \in read_types :
              OfKind(Delivered(out), kind) = OfKind(ObjectsFor(AllKinds).objects, kind)

(***************************************************************************)
(* More properties of the buffer, of SpecBuf.                              *)
(***************************************************************************)

\* The step is a reserve_space(n) that does not fit in the buffer as it is
DoesNotFit ==
    /\ pc = "buffer" /\ buf_last'.op = "reserve"
    /\ m_buffer.written + buf_last'.size > m_buffer.capacity

RECURSIVE Pow2(_)
Pow2(k) == IF k = 0 THEN 1 ELSE 2 * Pow2(k - 1)

\* The smallest power of two that is at least n
RECURSIVE PowerOfTwoFrom(_, _)
PowerOfTwoFrom(p, n) == IF p >= n THEN p ELSE PowerOfTwoFrom(2 * p, n)

\* The step is a reserve_space(n) that does not fit in a buffer that grows
\* in place
GrowsInPlace == DoesNotFit /\ m_buffer.memory /\ m_buffer.auto_grow = "yes"

\* What was in the buffer is there after the step, followed by the n bytes
BytesKept ==
    /\ buf_last'.err = ""
    /\ m_buffer'.committed = m_buffer.committed
    /\ m_buffer'.ncommit = m_buffer.ncommit
    /\ m_buffer'.written = m_buffer.written + buf_last'.size
    /\ SubSeq(m_buffer'.chunks, 1, Len(m_buffer.chunks)) = m_buffer.chunks
    /\ Len(m_buffer'.chunks) = Len(m_buffer.chunks) + 1
    /\ m_buffer'.next = m_buffer.next

\* C32, as stated: when reserve_space(n) does not fit in a buffer that grows
\* in place, the new capacity is the smallest power of two that is at least
\* written + n, and the bytes in the buffer, written and committed are as
\* before the reservation.
C32_SmallestPowerOfTwo ==
    [][GrowsInPlace =>
        /\ BytesKept
        /\ m_buffer'.capacity = PowerOfTwoFrom(1, m_buffer.written + buf_last'.size)
    ]_vars

\* C32, amended: when reserve_space(n) does not fit in a buffer that grows
\* in place, the new capacity is the old one doubled, once and then until
\* written + n fits, and the bytes in the buffer, written and committed are
\* as before the reservation.
C32_DoubledUntilItFits ==
    [][GrowsInPlace =>
        /\ BytesKept
        /\ \E k \in 1..4 :
              /\ m_buffer'.capacity = m_buffer.capacity * Pow2(k)
              /\ m_buffer'.capacity >= m_buffer.written + buf_last'.size
              /\ k > 1 => m_buffer.capacity * Pow2(k - 1) < m_buffer.written + buf_last'.size
    ]_vars

\* An item of 240 bytes did not fit after one of 16 bytes in a buffer of
\* 104 bytes, whose capacity was doubled twice
C32_Witness ==
    /\ pc = "buffer"
    /\ buf_last.op = "reserve" /\ buf_last.size = 240 /\ buf_last.made = 2
    /\ m_buffer.auto_grow = "yes"
    /\ m_buffer.written = 256 /\ m_buffer.committed = 16
    /\ m_buffer.capacity = 416

\* C33: when purge_removed has ended, written = committed = the end of the
\* last item that stays, in whatever state of the buffer it was called:
\* with or without committed items, with or without bytes pending after
\* them.
C33_PurgeEndsAtTheLastItem ==
    [][PurgeStep =>
        /\ m_buffer'.committed = SizeOfFirst(Survivors(m_buffer), Len(Survivors(m_buffer)))
        /\ m_buffer'.written = m_buffer'.committed
    ]_vars

\* The same where purge_removed gets past its first test, with committed
\* items in the buffer
C33_PurgeOfCommittedEndsAtTheLastItem ==
    [][(PurgeStep /\ m_buffer.committed # 0) =>
        /\ m_buffer'.committed = SizeOfFirst(Survivors(m_buffer), Len(Survivors(m_buffer)))
        /\ m_buffer'.written = m_buffer'.committed
    ]_vars

(***************************************************************************)
(* More properties of the runs of the decoder, of Spec.                    *)
(***************************************************************************)

\* The cases node, way and relation of the switch, for the reading f
BodyCase(s, f) ==
    CASE f.type = ds_node -> NodeCase(s, f.payload)
      [] f.type = ds_way -> WayCase(s, f.payload)
      [] f.type = ds_relation -> RelationCase(s, f.payload)
      [] OTHER -> s

\* The buffer as the next iteration of the loop of decode_data leaves the
\* switch with it, before flush_nested_buffer
BufferAfterSwitch(uv) ==
    LET f == ReadDataset(rd, uv)
    IN  IF f.kind = "dataset" THEN BodyCase(Logged(Run, f), f).m_buffer ELSE m_buffer

\* The chain of b has at most one buffer, which was split off with
\* committed bytes and nothing pending
OneSplitAtMost(b) ==
    /\ Len(b.next) <= 1
    /\ \A i \in 1..Len(b.next) :
          /\ b.next[i].committed > 0
          /\ b.next[i].written = b.next[i].committed
          /\ b.next[i].next = <<>>

\* C34: the output buffer, which grows by splitting, splits at most once
\* between two commits, and a buffer split off has committed > 0 and
\* written = committed; as the decoder takes one buffer out of the chain
\* after each dataset, the chain has at most one buffer at any time, and
\* none when the next dataset starts and when the final buffer has been
\* flushed.
C34_OnePredecessorAtMost ==
    pc \in {"header", "data", "done"} =>
        /\ OneSplitAtMost(m_buffer)
        /\ pc \in {"header", "data"} => m_buffer.next = <<>>
        /\ (pc = "done" /\ status = "ok") => m_buffer.next = <<>>
        /\ pc = "data" => \A uv \in UBOutcomes(rd) : OneSplitAtMost(BufferAfterSwitch(uv))

\* The dataset that comes next splits the buffer
C34_Witness ==
    /\ pc = "data"
    /\ m_buffer.committed > 0
    /\ \E uv \in UBOutcomes(rd) :
          /\ Len(BufferAfterSwitch(uv).next) = 1
          /\ BufferAfterSwitch(uv).committed > 0

(***************************************************************************)
(* More properties of the decoder, of SpecDec.                             *)
(***************************************************************************)

\* C35: a dataset whose metadata section is the byte 0 leaves the time and
\* changeset delta decoders as they were, and its object has no version,
\* time, changeset or user.  Otherwise the time decoder takes the delta;
\* when the time it then has is 0, the changeset decoder and the reference
\* table stay as they were, the object has the version but no time,
\* changeset or user, and the bytes that follow are read as the body of
\* the object.
C35_MetadataSection ==
    [][ (Dispatched /\ Head(LastGiven(log')) \in {ds_node, ds_way, ds_relation}) =>
          LET g == LastGiven(log')
              e == LastCommitted(m_buffer', out')
          IN  /\ g[3] = 0 =>
                    /\ m_delta'.timestamp = m_delta.timestamp
                    /\ m_delta'.changeset = m_delta.changeset
                    /\ status' = "" =>
                          /\ e.version = 0 /\ e.timestamp = 0 /\ e.changeset = 0
                          /\ e.uid = 0 /\ e.user = <<>>
              /\ g[3] # 0 =>
                    /\ m_delta'.timestamp = m_delta.timestamp + UnZigZag(g[4])
                    /\ m_delta'.timestamp = 0 =>
                          /\ m_delta'.changeset = m_delta.changeset
                          /\ g \in InfoSets =>
                                /\ status' = ""
                                /\ m_reference_table' = m_reference_table
                                /\ inserted' = inserted
                                /\ e.version = g[3] /\ e.timestamp = 0
                                /\ e.changeset = 0 /\ e.uid = 0 /\ e.user = <<>>
                                /\ Head(g) = ds_node =>
                                      /\ m_delta'.lon = m_delta.lon + 1
                                      /\ m_delta'.lat = m_delta.lat + 2
                                /\ Head(g) = ds_way => e.refs = <<m_delta'.way_node_id>>
                                /\ Head(g) = ds_relation => ~e.visible ]_vars

\* C35, its case: after two nodes with a time, a changeset and a user, a
\* node of version 3 brought the time back to 0 with the delta -2, and the
\* changeset decoder still has the value of the second node.
C35_Witness ==
    /\ Len(log) = 3 /\ status = ""
    /\ LastGiven(log) = <<16, 2, 3, 3, 2, 4>>
    /\ m_delta.timestamp = 0 /\ m_delta.changeset = 2
    /\ LastCommitted(m_buffer, out).version = 3
    /\ LastCommitted(m_buffer, out).timestamp = 0
    /\ LastCommitted(m_buffer, out).uid = 0
    /\ m_reference_table # RT_new

\* The string of the reference index of the table rt starts with two NUL
\* bytes
IsSentinel(rt, index) ==
    /\ ~RT_get(rt, index).err
    /\ Len(rt.tab[RT_get(rt, index).slot]) >= 2
    /\ SubSeq(rt.tab[RT_get(rt, index).slot], 1, 2) = <<0, 0>>

\* C36: a dataset whose user is inline with the uid 0 is decoded without
\* error, its object has the uid 0 and the empty user name, and the table
\* has got the string of two NUL bytes; a node whose user is a reference
\* to such a string is decoded without error too, with the uid 0 and the
\* empty user name, the table left as it was and the bytes that follow
\* read as its coordinates.
C36_AnonymousUser ==
    [][ Dispatched =>
          LET g == LastGiven(log')
              e == LastCommitted(m_buffer', out')
          IN  /\ g \in {NodeByUser(UserAnonymous), <<18, 2, 1, 2, 2>> \o UserAnonymous} =>
                    /\ status' = ""
                    /\ e.uid = 0 /\ e.user = <<>>
                    /\ e.version = 1 /\ e.changeset = m_delta'.changeset
                    /\ m_reference_table' = RT_add(m_reference_table, <<0, 0>>)
                    /\ inserted' = Append(inserted, <<0, 0>>)
              /\ \A k \in 1..number_of_entries :
                    (g = NodeByUser(<<k>>) /\ IsSentinel(m_reference_table, k)) =>
                        /\ status' = ""
                        /\ e.uid = 0 /\ e.user = <<>>
                        /\ e.version = 1 /\ e.changeset = m_delta'.changeset
                        /\ m_reference_table' = m_reference_table
                        /\ inserted' = inserted
                        /\ m_delta'.lon = m_delta.lon + 1
                        /\ m_delta'.lat = m_delta.lat + 2 ]_vars

\* C36, its case: the anonymous user was decoded inline, then a tag, and
\* the node with the user of the reference 2 has the uid 0 and no name.
C36_Witness ==
    /\ Len(log) = 3 /\ status = ""
    /\ LastGiven(log) = NodeByUser(<<2>>)
    /\ inserted = << <<0, 0>>, <<107, 0, 118, 0>> >>
    /\ IsSentinel(m_reference_table, 2)
    /\ LastCommitted(m_buffer, out).uid = 0
    /\ LastCommitted(m_buffer, out).user = <<>>
    /\ LastCommitted(m_buffer, out).changeset = 2

(***************************************************************************)
(* More properties of the runs of the parser, of Spec.                     *)
(***************************************************************************)

\* The headers the consumer has received
PublishedHeaders(o) == SelectSeq(o, LAMBDA x : x.kind = "header")

\* C37: once the header is published, no step changes what the consumer
\* has received of it, whatever bounding-box and timestamp datasets are
\* read afterwards; it stays the header of the datasets before the first
\* node, way or relation dataset.
C37_PublishedHeaderKept ==
    [][ header_is_done =>
          /\ header_is_done'
          /\ PublishedHeaders(out') = PublishedHeaders(out)
          /\ Len(PublishedHeaders(out')) = 1
          /\ PublishedHeaders(out')[1].header = HeaderOf(log', BeforeBody(log')) ]_vars

\* C37, its case: a timestamp dataset was read after a node, the header
\* of the parser has its time and the header the consumer received has not.
C37_Witness ==
    /\ Len(log) = 2 /\ log[1].type = ds_node /\ log[2].type = ds_timestamp
    /\ status = ""
    /\ header_is_done
    /\ m_header.timestamp # <<>>
    /\ Len(PublishedHeaders(out)) = 1
    /\ PublishedHeaders(out)[1].header.timestamp = <<>>

(***************************************************************************)
(* Properties of the parser between its threads, of SpecLive.              *)
(***************************************************************************)

\* The bytes of the input the cursor of the parser has not passed: what
\* the string of the parser holds from the cursor on, or the rest of the
\* window and the whole string when the window was left behind in other
\* memory, then the chunks in its queue and those the upstream still has
Unread(r, e) ==
    (IF r.moved THEN (r.m_end - r.m_data) + Len(r.m_input)
     ELSE Max(Len(r.m_input), r.m_end) - r.m_data)
        + QueuedBytes(r.inq) + QueuedBytes(e.upstream)

\* A pass of the loop of decode_data leaves fewer bytes unread; the pass
\* in which ensure_bytes_available leaves the window behind leaves fewer
\* bytes in the window
PassConsumes ==
    (pc = "data" /\ log' # log) =>
        IF rd'.moved /\ ~rd.moved
        THEN rd'.m_end - rd'.m_data < rd.m_end - rd.m_data
        ELSE Unread(rd', env') < Unread(rd, env)

\* The thread of the parser waits for the upstream only while the upstream
\* has a chunk to hand over, and for room only while the consumer has a
\* buffer to pull
WaitsForTheOthers ==
    /\ env.parser \in {"runs", "input", "room"}
    /\ env.parser = "input" => env.upstream # <<>>
    /\ env.parser = "room" => env.pulled < Buffers(out)

\* C38: with an upstream that hands over the chunks of a finite input and
\* then signals the end, a consumer that goes on pulling, and the thread
\* of the parser scheduled, every run comes to its end, with success or
\* with an error; every pass of the loop of decode_data moves the cursor
\* on by at least one byte, and the thread of the parser waits for nothing
\* but a chunk the upstream has still to hand over or a buffer the
\* consumer has still to pull.
C38_Terminates == <>(pc = "done") /\ [][PassConsumes]_vars /\ []WaitsForTheOthers

\* C38, its case: the run has ended well after the parser had waited for
\* the consumer, the upstream has handed over all its chunks and the
\* consumer has pulled the two buffers.
C38_Witness ==
    /\ pc = "done" /\ status = "ok"
    /\ env.upstream = <<>>
    /\ Buffers(out) = 2 /\ env.pulled = 2

\* The thread of the parser waits for room in the queue
C38_WitnessRoom == pc = "data" /\ env.parser = "room" /\ env.pulled = 0

\* The thread of the parser waits for the upstream in the middle of a
\* dataset
C38_WitnessInput ==
    pc = "data" /\ env.parser = "input" /\ Len(log) = 1 /\ rd.m_end > rd.m_data

=============================================================================
